---- MODULE Spec2Model ----
(***************************************************************************)
(* A model of the lit test driver: the evaluator state (TestRunState) that *)
(* walks a program's output with CHECK / CHECK-NEXT, the per-RUN           *)
(* orchestration (execute_tests, run_test_checks, collect_output) and the  *)
(* suite driver (run::tests, single_file).                                 *)
(*                                                                         *)
(* Strings are sequences of bytes.  A byte is written as a one-character   *)
(* string; the two bytes of the two-byte code point U+00E9 are written     *)
(* "C3" and "A9".  Byte offsets of the source are 0-based; a sequence      *)
(* position p of the model is the byte offset p - 1.                       *)
(***************************************************************************)
EXTENDS Integers, Sequences, FiniteSets, TLC

\* ------------------------------------------------------------------------
\* Bounds of the model.
\* ------------------------------------------------------------------------

\* Longest program output, in bytes, fed to a directly driven evaluator.
MaxOutLen == 3

\* ------------------------------------------------------------------------
\* Bytes, characters and string helpers.
\* ------------------------------------------------------------------------

\* First byte of the two-byte code point.
LeadByte == "C3"

\* Second byte of the two-byte code point.
ContByte == "A9"

\* The characters a program prints in the model, as byte sequences.
OutputChars == { <<"x">>, <<"y">>, <<" ">>, <<"\n">>, <<LeadByte, ContByte>> }

\* First byte of the two-byte whitespace character U+00A0.
WhitespaceLeadByte == "C2"

\* Second byte of the two-byte whitespace character U+00A0.
WhitespaceContByte == "A0"

\* char::len_utf8 of the character starting at position p of s.
len_utf8(s, p) == IF s[p] \in {LeadByte, WhitespaceLeadByte} THEN 2 ELSE 1

\* char::is_whitespace of the character starting with byte b.
is_whitespace(b) == b \in {" ", "\n", WhitespaceLeadByte}

\* Unicode word character (regex \w) test on the first or last byte of a
\* character.
IsWordByte(b) == b \in {"x", "y", LeadByte, ContByte}

\* s[from..], as a sequence (from is a position, 1-based).
SliceFrom(s, from) == SubSeq(s, from, Len(s))

\* str::find("\n"): the position of the first "\n" of s, or 0 when absent.
FindNewline(s) ==
    IF \E i \in 1..Len(s) : s[i] = "\n"
    THEN CHOOSE i \in 1..Len(s) : s[i] = "\n" /\ \A j \in 1..(i - 1) : s[j] # "\n"
    ELSE 0

\* The empty variable map (HashMap::new()).
EmptyMap == [n \in {} |-> <<>>]

\* Extend keeping the entries old has already.
ExtendKeepingOld(old, new) ==
    [n \in (DOMAIN old) \cup (DOMAIN new) |->
        IF n \in DOMAIN old THEN old[n] ELSE new[n]]

\* HashMap::extend: the entries of new replace those of old.
Extend(old, new) ==
    [n \in (DOMAIN old) \cup (DOMAIN new) |->
        IF n \in DOMAIN new THEN new[n] ELSE old[n]]

\* ------------------------------------------------------------------------
\* The regex crate, as far as the evaluator uses it.  A compiled regex is a
\* sequence of tokens: a raw character, an escaped character, the opening
\* "(?P<name>" of a named group and the closing ")".
\* ------------------------------------------------------------------------

\* A raw (unescaped) character of a regex.
Ch(c) == [t |-> "ch", c |-> c]

\* A backslash-escaped character of a regex.
Esc(c) == [t |-> "esc", c |-> c]

\* The opening "(?P<name>" of a named capture group.
GroupOpen(name) == [t |-> "open", c |-> name]

\* The closing ")" of a group.
GroupClose == [t |-> "close", c |-> ""]

\* Characters with a special meaning in a regex (regex::escape escapes them).
MetaBytes == {".", "+"}

\* The result of a failed match.
NoMatch == [ok |-> FALSE, start |-> 0, end |-> 0, caps |-> EmptyMap]

\* The assertion \b: exactly one side of position p of hay is a word
\* character.
IsWordBoundary(hay, p) ==
    LET before == p > 1 /\ IsWordByte(hay[p - 1])
        after  == p <= Len(hay) /\ IsWordByte(hay[p])
    IN before # after

\* Number of bytes the single-character token tok consumes at position p of
\* hay; 0 when it does not match there.
Consumes(tok, hay, p) ==
    IF p > Len(hay) THEN 0
    ELSE IF tok = Ch(".") THEN (IF hay[p] = "\n" THEN 0 ELSE len_utf8(hay, p))
    ELSE IF tok = Esc("s") THEN (IF is_whitespace(hay[p]) THEN len_utf8(hay, p) ELSE 0)
    ELSE IF hay[p] = tok.c THEN 1
    ELSE 0

\* The positions reached after 1, 2, ... repetitions of tok from position p.
RECURSIVE RunEnds(_, _, _)
RunEnds(tok, hay, p) ==
    LET n == Consumes(tok, hay, p)
    IN IF n = 0 THEN <<>> ELSE <<p + n>> \o RunEnds(tok, hay, p + n)

\* Backtracking, leftmost-first match of the tokens re[i..] at position p of
\* hay.  opens is the stack of groups entered and not yet left; caps the
\* captures made so far.  A token followed by "+" is repeated greedily:
\* MatchPlus tries the ends of its runs from the longest to the shortest, and
\* MatchPlusElse goes on to the next shorter run when the rest r did not
\* match.
RECURSIVE MatchFrom(_, _, _, _, _, _)
RECURSIVE MatchPlus(_, _, _, _, _, _)
RECURSIVE MatchPlusElse(_, _, _, _, _, _, _)
MatchFrom(re, i, hay, p, opens, caps) ==
    IF i > Len(re) THEN [ok |-> TRUE, start |-> 0, end |-> p, caps |-> caps]
    ELSE LET tok == re[i] IN
         CASE tok.t = "open" ->
                MatchFrom(re, i + 1, hay, p, Append(opens, <<tok.c, p>>), caps)
           [] tok.t = "close" ->
                LET o == opens[Len(opens)]
                    captured == [n \in {o[1]} |-> SubSeq(hay, o[2], p - 1)]
                IN MatchFrom(re, i + 1, hay, p,
                             SubSeq(opens, 1, Len(opens) - 1), Extend(caps, captured))
           [] tok = Esc("b") ->
                IF IsWordBoundary(hay, p)
                THEN MatchFrom(re, i + 1, hay, p, opens, caps)
                ELSE NoMatch
           [] OTHER ->
                IF i + 1 <= Len(re) /\ re[i + 1] = Ch("+")
                THEN MatchPlus(re, i, hay, RunEnds(tok, hay, p), opens, caps)
                ELSE IF Consumes(tok, hay, p) = 0 THEN NoMatch
                ELSE MatchFrom(re, i + 1, hay, p + Consumes(tok, hay, p), opens, caps)
MatchPlus(re, i, hay, ends, opens, caps) ==
    IF ends = <<>> THEN NoMatch
    ELSE MatchPlusElse(MatchFrom(re, i + 2, hay, ends[Len(ends)], opens, caps),
                       re, i, hay, SubSeq(ends, 1, Len(ends) - 1), opens, caps)
MatchPlusElse(r, re, i, hay, ends, opens, caps) ==
    IF r.ok THEN r ELSE MatchPlus(re, i, hay, ends, opens, caps)

\* Regex::find / Regex::captures: the leftmost match of re in hay, searched
\* from position s on.  start and end are positions: the match is
\* hay[start .. end - 1].
RECURSIVE FindFrom(_, _, _)
RECURSIVE FindElse(_, _, _, _)
FindFrom(re, hay, s) == FindElse(MatchFrom(re, 1, hay, s, <<>>, EmptyMap), re, hay, s)

\* The match r found at position s, or else the search from the next
\* character on.
FindElse(r, re, hay, s) ==
    IF r.ok THEN [r EXCEPT !.start = s]
    ELSE IF s > Len(hay) THEN NoMatch
    ELSE FindFrom(re, hay, s + len_utf8(hay, s))

\* Regex::find(hay).
Find(re, hay) == FindFrom(re, hay, 1)

\* Regex::capture_names, the named ones.
capture_names(re) == { re[i].c : i \in { j \in 1..Len(re) : re[j].t = "open" } }

\* Regex::new succeeds: every "+" follows a character it can repeat.
IsValidRegex(re) ==
    \A i \in 1..Len(re) :
        re[i] = Ch("+") =>
            /\ i > 1
            /\ re[i - 1].t \in {"ch", "esc"}
            /\ re[i - 1] \notin {Ch("+"), Esc("b")}

\* regex::escape: every special character gets a backslash.
escape(text) ==
    [i \in 1..Len(text) |-> IF text[i] \in MetaBytes THEN Esc(text[i]) ELSE Ch(text[i])]

\* A string taken as regex source: a two-character escape such as "\\b" is
\* written as one element, every other element is a raw character.
EscapeSources == {"\\b", "\\s", "\\.", "\\+"}

\* The character an escape source escapes.
EscapedChar(e) ==
    CASE e = "\\b" -> "b" [] e = "\\s" -> "s" [] e = "\\." -> "." [] OTHER -> "+"

\* The tokens of a regex source.
ParseSource(src) ==
    [i \in 1..Len(src) |->
        IF src[i] \in EscapeSources THEN Esc(EscapedChar(src[i])) ELSE Ch(src[i])]

\* ------------------------------------------------------------------------
\* Text patterns (model.rs) and their resolution to a regex
\* (vars/resolve.rs).
\* ------------------------------------------------------------------------

\* PatternComponent::Text(text).
Text(text) == [type |-> "Text", name |-> "", body |-> text]

\* PatternComponent::Variable(name).
Variable(name) == [type |-> "Variable", name |-> name, body |-> <<>>]

\* PatternComponent::Constant(name).
Constant(name) == [type |-> "Constant", name |-> name, body |-> <<>>]

\* PatternComponent::Regex(regex).
Regex(src) == [type |-> "Regex", name |-> "", body |-> src]

\* PatternComponent::NamedRegex { name, regex }.
NamedRegex(name, src) == [type |-> "NamedRegex", name |-> name, body |-> src]

\* Config::lookup_variable: the value of name in the merged variable store;
\* a missing name is an error of the evaluation.
lookup_variable(name, variables) ==
    IF name \in DOMAIN variables
    THEN [found |-> TRUE, value |-> variables[name]]
    ELSE [found |-> FALSE, value |-> <<>>]

\* The regex source one component contributes.
ResolveComponent(comp, variables) ==
    CASE comp.type = "Text" -> escape(comp.body)
      [] comp.type \in {"Variable", "Constant"} ->
            LET value == lookup_variable(comp.name, variables).value
            IN [i \in 1..Len(value) |-> Ch(value[i])]
      [] comp.type = "Regex" -> ParseSource(comp.body)
      [] OTHER -> <<GroupOpen(comp.name)>> \o ParseSource(comp.body) \o <<GroupClose>>

\* The concatenation of the parts of every component, in order.
RECURSIVE JoinParts(_, _, _)
JoinParts(components, i, variables) ==
    IF i > Len(components) THEN <<>>
    ELSE ResolveComponent(components[i], variables)
            \o JoinParts(components, i + 1, variables)

\* Regex::new of the joined parts.
Regex_new(regex) ==
    IF ~IsValidRegex(regex) THEN [status |-> "invalid", regex |-> <<>>]
    ELSE [status |-> "ok", regex |-> regex]

\* vars::resolve::text_pattern.  status is "ok" with the compiled regex,
\* "missing" when a referenced name is not in variables, "invalid" when the
\* joined source does not compile.
text_pattern(pattern, variables) ==
    IF \E i \in 1..Len(pattern) :
          /\ pattern[i].type \in {"Variable", "Constant"}
          /\ ~lookup_variable(pattern[i].name, variables).found
    THEN [status |-> "missing", regex |-> <<>>]
    ELSE Regex_new(JoinParts(pattern, 1, variables))

\* ------------------------------------------------------------------------
\* Test results (model.rs).
\* ------------------------------------------------------------------------

\* TestResultKind::Pass.
Pass == [kind |-> "Pass"]

\* TestResultKind::Error { message }.
Error(message) == [kind |-> "Error", message |-> message]

\* TestResultKind::Fail { reason, hint }.
Fail(reason, hint) == [kind |-> "Fail", reason |-> reason, hint |-> hint]

\* TestResultKind::ExpectedFailure { actual_reason }.
ExpectedFailure(reason) == [kind |-> "ExpectedFailure", actual_reason |-> reason]

\* TestResultKind::EmptyTest, the initial value of run_test_checks.
EmptyTest == [kind |-> "EmptyTest"]

\* The thread panicked: no result is produced.
Panic(message) == [kind |-> "Panic", message |-> message]

\* TestFailReason::CheckFailed(CheckFailureInfo { .. }).
CheckFailed(text, index, pattern) ==
    [type |-> "CheckFailed",
     complete_output_text |-> text,
     successfully_checked_until_byte_index |-> index,
     expected_pattern |-> pattern]

\* CheckFailureInfo::successfully_checked_text: the bytes before the index.
successfully_checked_text(info) ==
    SubSeq(info.complete_output_text, 1, info.successfully_checked_until_byte_index)

\* remaining_text starting one byte after the index.
remaining_text_after_index(info) ==
    SliceFrom(info.complete_output_text, info.successfully_checked_until_byte_index + 2)

\* CheckFailureInfo::remaining_text: the bytes from the index on.
remaining_text(info) ==
    SliceFrom(info.complete_output_text, info.successfully_checked_until_byte_index + 1)

\* TestFailReason::UnsuccessfulExecution { program_command_line, exit_status }.
UnsuccessfulExecution(command_line, exit_status) ==
    [type |-> "UnsuccessfulExecution",
     program_command_line |-> command_line,
     exit_status |-> exit_status]

\* TestResultKind::is_erroneous.
is_erroneous(r) == r.kind \in {"UnexpectedPass", "Error", "Fail"}

\* ------------------------------------------------------------------------
\* The evaluator state of one RUN (run/test_evaluator/state.rs).
\* ------------------------------------------------------------------------

\* TestRunState::new.
TestRunState_new(initial_variables) ==
    [complete_output_stream |-> <<>>,
     current_stream_byte_position |-> 0,
     complete_stderr |-> <<>>,
     variables |-> initial_variables]

\* TestRunState::append_program_output.
append_program_output(st, output) ==
    [st EXCEPT !.complete_output_stream = @ \o output]

\* TestRunState::append_program_stderr.
append_program_stderr(st, stderr) ==
    [st EXCEPT !.complete_stderr = @ \o stderr]

\* TestRunState::unprocessed_output_stream.
unprocessed_output_stream(st) ==
    SliceFrom(st.complete_output_stream, st.current_stream_byte_position + 1)

\* set_position_eof going to the start of the output, not to its end.
set_position_start(st) ==
    [st EXCEPT !.current_stream_byte_position = 0]

\* TestRunState::set_position_eof.
set_position_eof(st) ==
    [st EXCEPT !.current_stream_byte_position = Len(st.complete_output_stream)]

\* LeadingWhitespaceBytes counting the characters, not their bytes.
RECURSIVE LeadingWhitespaceChars(_, _)
LeadingWhitespaceChars(s, p) ==
    IF p <= Len(s) /\ is_whitespace(s[p])
    THEN 1 + LeadingWhitespaceChars(s, p + len_utf8(s, p))
    ELSE 0

\* The summed len_utf8 of the whitespace characters s starts with, from
\* position p on.
RECURSIVE LeadingWhitespaceBytes(_, _)
LeadingWhitespaceBytes(s, p) ==
    IF p <= Len(s) /\ is_whitespace(s[p])
    THEN len_utf8(s, p) + LeadingWhitespaceBytes(s, p + len_utf8(s, p))
    ELSE 0

\* The match of eat_whitespace on the offset of the first character that is
\* no whitespace.
skip_to(st, first_nonwhitespace_offset) ==
    IF first_nonwhitespace_offset = 0
    THEN set_position_eof(st)
    ELSE [st EXCEPT !.current_stream_byte_position = @ + first_nonwhitespace_offset]

\* eat_whitespace leaving the whitespace where it is.
eat_no_whitespace(st) == st

\* TestRunState::eat_whitespace.
eat_whitespace(st) ==
    IF /\ Len(unprocessed_output_stream(st)) > 0
       /\ is_whitespace(unprocessed_output_stream(st)[1])
    THEN skip_to(st, LeadingWhitespaceBytes(unprocessed_output_stream(st), 1))
    ELSE st

\* skip_line leaving the rest of the line where it is.
skip_nothing(st, new_line) == st

\* skip_line going one byte past the byte after the "\n".
skip_line_too_far(st, new_line) ==
    IF new_line # 0
    THEN [st EXCEPT !.current_stream_byte_position = @ + (new_line - 1) + 2]
    ELSE set_position_eof(st)

\* The match of eat_until_end_of_line on the position new_line of the first
\* "\n" (0: none).
skip_line(st, new_line) ==
    IF new_line # 0
    THEN [st EXCEPT !.current_stream_byte_position = @ + (new_line - 1) + 1]
    ELSE set_position_eof(st)

\* TestRunState::eat_until_end_of_line.
eat_until_end_of_line(st) == skip_line(st, FindNewline(unprocessed_output_stream(st)))

\* The variables process_captures makes of the captures of its match.
captured_variables(regex, captures) ==
    [asserted |-> captures.ok,
     variables |-> IF captures.ok
                   THEN [n \in capture_names(regex) |-> captures.caps[n]]
                   ELSE EmptyMap]

\* process_captures: the named groups of regex, matched again on the matched
\* text alone.  asserted is the condition of its debug_assert_eq!.
process_captures(regex, matched_text) ==
    captured_variables(regex, Find(regex, matched_text))

\* The end of next_unprocessed_byte_index_of: the matched range, and the
\* variables extended by those of the match.
matched_range_of(st, regex_match, new_variables) ==
    [status |-> "ok", found |-> TRUE,
     start |-> regex_match.start - 1, end |-> regex_match.end - 1,
     asserted |-> new_variables.asserted,
     st |-> [st EXCEPT !.variables = Extend(@, new_variables.variables)]]

\* The match on regex.find(output_str) of next_unprocessed_byte_index_of.
on_regex_match(st, regex, output_str, regex_match) ==
    IF regex_match.ok
    THEN matched_range_of(st, regex_match,
             process_captures(regex,
                 SubSeq(output_str, regex_match.start, regex_match.end - 1)))
    ELSE [status |-> "ok", found |-> FALSE, start |-> 0, end |-> 0,
          asserted |-> TRUE, st |-> st]

\* next_unprocessed_byte_index_of once the pattern is resolved.
find_compiled(st, compiled) ==
    IF compiled.status # "ok"
    THEN [status |-> compiled.status, found |-> FALSE, start |-> 0, end |-> 0,
          asserted |-> TRUE, st |-> st]
    ELSE on_regex_match(st, compiled.regex, unprocessed_output_stream(st),
                        Find(compiled.regex, unprocessed_output_stream(st)))

\* TestRunState::next_unprocessed_byte_index_of.  found tells Some from
\* None; start and end are byte offsets relative to the unprocessed stream.
next_unprocessed_byte_index_of(st, pattern) ==
    find_compiled(st, text_pattern(pattern, st.variables))

\* The canonical syntax of a Constant component.
display_constant(name) == <<"@">> \o name

\* What Display writes for one component.
display_component(component) ==
    CASE component.type = "Text" -> component.body
      [] component.type = "Variable" -> <<"$", "$">> \o component.name
      [] component.type = "Regex" -> <<"[", "[">> \o component.body \o <<"]", "]">>
      [] component.type = "NamedRegex" ->
            <<"[", "[">> \o component.name \o <<":">> \o component.body \o <<"]", "]">>
      [] OTHER -> display_constant(component.name)

\* impl Display for TextPattern, from component i on.
RECURSIVE Display(_, _)
Display(components, i) ==
    IF i > Len(components) THEN <<>>
    ELSE display_component(components[i]) \o Display(components, i + 1)

\* Option::None of a hint.
NoHint == <<>>

\* The hint of a CHECK-NEXT whose match is not on the next line: Some of
\* the format! of check_extended, the text pattern written by its Display.
NotOnNextLineHint(pattern) ==
    << <<"found a match for '">>
         \o Display(pattern, 1)
         \o <<"', but it does not appear on the next line, as required by the CHECK-NEXT directive">> >>

\* starts_after_first_new_line comparing the end of the match, not its start.
starts_after_first_new_line_end(st, matched_range) ==
    /\ FindNewline(unprocessed_output_stream(st)) # 0
    /\ matched_range.end >= FindNewline(unprocessed_output_stream(st)) - 1

\* The CHECK-NEXT logic of check_extended: TRUE when the unprocessed stream
\* holds a "\n" and the match starts at or after it.
starts_after_first_new_line(st, matched_range) ==
    /\ FindNewline(unprocessed_output_stream(st)) # 0
    /\ matched_range.start >= FindNewline(unprocessed_output_stream(st)) - 1

\* check_failure dropping the hint.
check_failure_without_hint(st, pattern, hint) ==
    Fail(CheckFailed(st.complete_output_stream, st.current_stream_byte_position, pattern),
         NoHint)

\* Fail { reason: CheckFailed(..), hint } as check_extended builds it.
check_failure(st, pattern, hint) ==
    Fail(CheckFailed(st.complete_output_stream, st.current_stream_byte_position, pattern),
         hint)

\* check_extended after the search: range is what
\* next_unprocessed_byte_index_of returned, range.st the state it left.
on_matched_range(range, pattern, require_on_next_line, debug) ==
    CASE range.status = "missing" ->
           [st |-> range.st, result |-> Error("no variable with that name exists")]
      [] range.status = "invalid" ->
           [st |-> range.st, result |-> Panic("generated invalid line match regex")]
      [] debug /\ ~range.asserted ->
           [st |-> range.st, result |-> Panic("assertion failed")]
      [] ~range.found ->
           [st |-> range.st, result |-> check_failure(range.st, pattern, NoHint)]
      [] require_on_next_line /\ starts_after_first_new_line(range.st, range) ->
           [st |-> range.st,
            result |-> check_failure(range.st, pattern, NotOnNextLineHint(pattern))]
      [] OTHER ->
           [st |-> eat_until_end_of_line(
                     [range.st EXCEPT !.current_stream_byte_position = @ + range.end]),
            result |-> Pass]

\* TestRunState::check_extended.  debug tells a debug build from a release
\* build.  The result is the new state and the TestResultKind.
check_extended(st, pattern, require_on_next_line, debug) ==
    on_matched_range(next_unprocessed_byte_index_of(eat_whitespace(st), pattern),
                     pattern, require_on_next_line, debug)

\* TestRunState::check.
check(st, pattern, debug) == check_extended(st, pattern, FALSE, debug)

\* TestRunState::check_next.
check_next(st, pattern, debug) == check_extended(st, pattern, TRUE, debug)

\* ------------------------------------------------------------------------
\* Test files, the configuration and the processes of the suite
\* (model.rs, run/test_evaluator.rs).
\* ------------------------------------------------------------------------

\* Most test files one suite run discovers.
MaxFiles == 2

\* Most commands of one test file.
MaxCommands == 3

\* Command { kind: CommandKind::Run(Invocation { original_command }) }.
Run(original_command) == [kind |-> "Run", invocation |-> original_command, pattern |-> <<>>]

\* Command { kind: CommandKind::Check(pattern) }.
CheckCmd(pattern) == [kind |-> "Check", invocation |-> <<>>, pattern |-> pattern]

\* Command { kind: CommandKind::CheckNext(pattern) }.
CheckNextCmd(pattern) == [kind |-> "CheckNext", invocation |-> <<>>, pattern |-> pattern]

\* Command { kind: CommandKind::XFail }.
XFail == [kind |-> "XFail", invocation |-> <<>>, pattern |-> <<>>]

\* The commands test files are made of: RUN: r @cc, XFAIL, CHECK: x,
\* CHECK-NEXT: [[X:.]].
SuiteCommands ==
    { Run(<<"r", " ", "@", "c", "c">>),
      XFail,
      CheckCmd(<<Text(<<"x">>)>>),
      CheckNextCmd(<<NamedRegex("X", <<".">>)>>) }

\* All command lists of exactly n commands.
RECURSIVE CommandLists(_)
CommandLists(n) ==
    IF n = 0 THEN { <<>> }
    ELSE { Append(l, c) : l \in CommandLists(n - 1), c \in SuiteCommands }

\* The test files: every list of at most MaxCommands commands.
TestFiles == UNION { CommandLists(n) : n \in 0..MaxCommands }

\* Config::constants of the suite.
ConfigConstants ==
    [n \in {"cc", "file", "tempfile"} |-> IF n = "tempfile" THEN <<"t">> ELSE <<"x">>]

\* Config::cleanup_temporary_files.
cleanup_temporary_files == TRUE

\* str::contains: pat occurs in the name s.
contains(s, pat) ==
    \E i \in 1..(Len(s) - Len(pat) + 1) : SubSeq(s, i, i + Len(pat) - 1) = pat

\* VariablesExt::tempfile_paths: the values of the variables whose name
\* contains "tempfile".
tempfile_paths(variables) ==
    { variables[n] : n \in { k \in DOMAIN variables : contains(k, "tempfile") } }

\* Config::shell.
ConfigShell == "bash"

\* TestFile::variables: `file` is the absolute path of the test file.
TestFile_variables(test_file) == [n \in {"file"} |-> <<"p">>]

\* TestFile::run_command_invocations: the RUN invocations, in file order.
RECURSIVE run_command_invocations(_)
run_command_invocations(commands) ==
    IF commands = <<>> THEN <<>>
    ELSE IF Head(commands).kind = "Run"
         THEN <<Head(commands).invocation>> \o run_command_invocations(Tail(commands))
         ELSE run_command_invocations(Tail(commands))

\* TestFile::is_expected_failure: the file holds an XFAIL command.
is_expected_failure(commands) == \E i \in 1..Len(commands) : commands[i].kind = "XFail"

\* io::Error::to_string of the errors launching the shell can end with, by
\* their io::ErrorKind.
io_Error_to_string ==
    [e \in {"NotFound", "PermissionDenied"} |->
        IF e = "NotFound" THEN "No such file or directory (os error 2)"
        ELSE "Permission denied (os error 13)"]

\* What launching the shell of a RUN can do: the launch fails, or the
\* process runs, prints and exits.
ProcessOutcomes ==
    { [launched |-> FALSE, error |-> e, stdout |-> <<>>, stderr |-> <<>>, status |-> 0] :
        e \in DOMAIN io_Error_to_string }
    \cup
    { [launched |-> TRUE, error |-> "", stdout |-> <<>>, stderr |-> <<"x">>, status |-> 0] }
    \cup
    { [launched |-> TRUE, error |-> "", stdout |-> out, stderr |-> <<>>, status |-> 0] :
        out \in { <<"x", " ">>, <<"x", "\n", "x">> } }
    \cup
    { [launched |-> TRUE, error |-> "", stdout |-> <<"x">>, stderr |-> <<"x">>, status |-> 1] }

\* ProgramOutput { stdout, stderr }.
ProgramOutput(stdout, stderr) == [stdout |-> stdout, stderr |-> stderr]

\* initial_variables with the two extend calls swapped: constants win.
initial_variables_swapped(constants, file_variables) == Extend(file_variables, constants)

\* The initial variables execute_tests builds for a RUN.
initial_variables(constants, file_variables) == Extend(constants, file_variables)

\* The characters of a constant name in an invocation: [_a-zA-Z].
ConstantNameChars ==
    { "_", "a", "b", "c", "d", "e", "f", "g", "h", "i", "j", "k", "l", "m",
      "n", "o", "p", "q", "r", "s", "t", "u", "v", "w", "x", "y", "z",
      "A", "B", "C", "D", "E", "F", "G", "H", "I", "J", "K", "L", "M",
      "N", "O", "P", "Q", "R", "S", "T", "U", "V", "W", "X", "Y", "Z" }

\* ConstantSpanEnd stopping after the first character of the name.
ConstantSpanEndOfOne(cmd, p) ==
    IF p <= Len(cmd) /\ cmd[p] \in ConstantNameChars THEN p ELSE p - 1

\* The end of the longest run of constant name characters of cmd that
\* starts at position p (p - 1 when there is none).
RECURSIVE ConstantSpanEnd(_, _)
ConstantSpanEnd(cmd, p) ==
    IF p <= Len(cmd) /\ cmd[p] \in ConstantNameChars
    THEN ConstantSpanEnd(cmd, p + 1)
    ELSE p - 1

\* The characters cmd[from..to], as one name.
RECURSIVE ConstantSpanName(_, _, _)
ConstantSpanName(cmd, from, to) ==
    IF from > to THEN "" ELSE cmd[from] \o ConstantSpanName(cmd, from + 1, to)

\* vars::resolve::invocation from position index on: every match of
\* CONSTANT_REGEX is replaced by the value of the name, the text between
\* the matches is copied.  The invocations of the model name constants the
\* configuration defines.
RECURSIVE resolve_invocation(_, _, _)
resolve_invocation(cmd, index, constants) ==
    IF index > Len(cmd) THEN <<>>
    ELSE IF cmd[index] = "@" /\ ConstantSpanEnd(cmd, index + 1) > index
    THEN lookup_variable(ConstantSpanName(cmd, index + 1, ConstantSpanEnd(cmd, index + 1)),
                         constants).value
            \o resolve_invocation(cmd, ConstantSpanEnd(cmd, index + 1) + 1, constants)
    ELSE <<cmd[index]>> \o resolve_invocation(cmd, index + 1, constants)

\* The names of the ConstantSpans vars::resolve::invocation makes of the
\* matches of CONSTANT_REGEX in cmd from position index on, each name a
\* sequence of characters.
RECURSIVE constant_span_names(_, _)
constant_span_names(cmd, index) ==
    IF index > Len(cmd) THEN <<>>
    ELSE IF cmd[index] = "@" /\ ConstantSpanEnd(cmd, index + 1) > index
    THEN <<SubSeq(cmd, index + 1, ConstantSpanEnd(cmd, index + 1))>>
            \o constant_span_names(cmd, ConstantSpanEnd(cmd, index + 1) + 1)
    ELSE constant_span_names(cmd, index + 1)

\* build_command: the command line of a RUN, resolved against the
\* constants extended by the variables of the test file.
build_command(invocation, test_file) ==
    resolve_invocation(invocation, 1,
                       Extend(ConfigConstants, TestFile_variables(test_file)))

\* collect_output giving the text of the io::Error for every launch error.
collect_output_error_text(outcome, command_line, shell) ==
    IF ~outcome.launched
    THEN [program_output |-> ProgramOutput(<<>>, <<>>),
          result |-> Error(io_Error_to_string[outcome.error])]
    ELSE [program_output |-> ProgramOutput(outcome.stdout, outcome.stderr),
          result |-> IF outcome.status # 0
                     THEN Fail(UnsuccessfulExecution(command_line, outcome.status), NoHint)
                     ELSE Pass]

\* collect_output without the test of the exit status.
collect_output_ignoring_status(outcome, command_line, shell) ==
    IF ~outcome.launched
    THEN [program_output |-> ProgramOutput(<<>>, <<>>),
          result |-> Error(IF outcome.error = "NotFound"
                           THEN "shell '" \o shell \o "' does not exist"
                           ELSE io_Error_to_string[outcome.error])]
    ELSE [program_output |-> ProgramOutput(outcome.stdout, outcome.stderr),
          result |-> Pass]

\* collect_output: the program output and the result of the execution.
collect_output(outcome, command_line, shell) ==
    IF ~outcome.launched
    THEN [program_output |-> ProgramOutput(<<>>, <<>>),
          result |-> Error(IF outcome.error = "NotFound"
                           THEN "shell '" \o shell \o "' does not exist"
                           ELSE io_Error_to_string[outcome.error])]
    ELSE [program_output |-> ProgramOutput(outcome.stdout, outcome.stderr),
          result |-> IF outcome.status # 0
                     THEN Fail(UnsuccessfulExecution(command_line, outcome.status), NoHint)
                     ELSE Pass]

\* The match on check_result that ends run_test_checks.
run_test_checks_result(check_result, commands) ==
    IF check_result.kind = "Fail"
    THEN IF is_expected_failure(commands)
         THEN ExpectedFailure(check_result.reason)
         ELSE check_result
    ELSE check_result

\* The first erroneous result of results[i..], or Pass (single_file).
RECURSIVE first_erroneous_from(_, _)
first_erroneous_from(results, i) ==
    IF i > Len(results) THEN Pass
    ELSE IF is_erroneous(results[i].result) THEN results[i].result
    ELSE first_erroneous_from(results, i + 1)

\* overall_result_of without the is_erroneous filter: the first result.
overall_result_of_unfiltered(results) ==
    IF Len(results) = 0 THEN Pass ELSE results[1].result

\* The overall result single_file computes from the per-RUN results.
overall_result_of(results) == first_erroneous_from(results, 1)

\* update_has_failure assigning instead of accumulating: the last file wins.
update_has_failure_assign(has_failure_, is_successful) == ~is_successful

\* The update of has_failure in the loop of run::tests.
update_has_failure(has_failure_, is_successful) ==
    IF ~is_successful THEN TRUE ELSE has_failure_

\* next_path taking the discovered paths from the last to the first.
next_path_reversed(number_of_test_files, remaining_) == remaining_

\* The loop of run::tests over the discovered paths: the discovery index of
\* the path it is at when remaining_ of them are not yet finished.
next_path(number_of_test_files, remaining_) == number_of_test_files - remaining_ + 1

\* ------------------------------------------------------------------------
\* The parser of text patterns (parse.rs) and their Display (model.rs).  A
\* string is a sequence of characters here; names and regex sources of the
\* parsed components are sequences of characters too.
\* ------------------------------------------------------------------------

\* Longest pattern source parsed.
MaxPatternLen == 3

\* A character of two bytes in UTF-8 that char::is_alphanumeric holds for.
TwoByteChar == "U+00E9"

\* The characters pattern sources are made of.
PatternChars == {"a", "$", "[", "]", ":", "@", TwoByteChar}

\* All strings of exactly n characters of PatternChars.
RECURSIVE PatternSourcesOfLen(_)
PatternSourcesOfLen(n) ==
    IF n = 0 THEN { <<>> }
    ELSE { Append(s, c) : s \in PatternSourcesOfLen(n - 1), c \in PatternChars }

\* The pattern sources: every string of at most MaxPatternLen characters.
PatternSources == UNION { PatternSourcesOfLen(n) : n \in 0..MaxPatternLen }

\* The ASCII digits.
AsciiDigits == {"0", "1", "2", "3", "4", "5", "6", "7", "8", "9"}

\* char::is_alphanumeric.
is_alphanumeric(c) == c \in (ConstantNameChars \ {"_"}) \cup AsciiDigits \cup {TwoByteChar}

\* str::len of the characters s[from..to]: their number of bytes.
RECURSIVE str_len(_, _, _)
str_len(s, from, to) ==
    IF from > to THEN 0
    ELSE (IF s[from] = TwoByteChar THEN 2 ELSE 1) + str_len(s, from + 1, to)

\* take_while(is_alphanumeric) from position p of s: the position of the
\* last character taken (p - 1 when none is).
RECURSIVE take_while_alphanumeric(_, _)
take_while_alphanumeric(s, p) ==
    IF p <= Len(s) /\ is_alphanumeric(s[p])
    THEN take_while_alphanumeric(s, p + 1)
    ELSE p - 1

\* The position chars is at after chars.nth(name.len() - 1), the name
\* starting at position p and being of name_len bytes: name_len characters
\* are skipped.  An empty name makes the subtraction wrap in a build
\* without overflow checks, and everything left is skipped.
skip_name(s, p, name_len) ==
    IF name_len = 0 \/ p + name_len > Len(s) THEN Len(s) + 1 ELSE p + name_len

\* The inner loop of the `[[` arm from position p on, at bracket_level: the
\* position where it breaks, which is that of the `]]` ending the regex or
\* Len(s) + 1 when the characters run out.
RECURSIVE regex_loop_break(_, _, _)
regex_loop_break(s, p, bracket_level) ==
    IF p > Len(s) THEN p
    ELSE IF s[p] = "]" /\ p < Len(s) /\ s[p + 1] = "]" /\ bracket_level = 0 THEN p
    ELSE regex_loop_break(s, p + 1,
                          CASE s[p] = "[" -> bracket_level + 1
                            [] s[p] = "]" -> bracket_level - 1
                            [] OTHER -> bracket_level)

\* regex.chars().position(|c| c == ':'): the number of characters before
\* the first colon, or -1 without a colon.
first_colon_idx(regex) ==
    IF \E i \in 1..Len(regex) : regex[i] = ":"
    THEN (CHOOSE i \in 1..Len(regex) :
             regex[i] = ":" /\ \A j \in 1..(i - 1) : regex[j] # ":") - 1
    ELSE -1

\* str::is_char_boundary(idx): idx bytes make up whole characters of s.
is_char_boundary(s, idx) == \E m \in 0..Len(s) : str_len(s, 1, m) = idx

\* &s[0..idx], idx a byte index on a character boundary: the characters
\* the first idx bytes make up.
slice_to(s, idx) == SubSeq(s, 1, CHOOSE m \in 0..Len(s) : str_len(s, 1, m) = idx)

\* IDENTIFIER_REGEX.is_match: ^[a-zA-Z_][a-zA-Z0-9_]*$.
is_identifier(substr) ==
    /\ Len(substr) >= 1
    /\ substr[1] \in ConstantNameChars
    /\ \A i \in 2..Len(substr) : substr[i] \in ConstantNameChars \cup AsciiDigits

\* The component the `[[` arm pushes for the collected regex, colon being
\* first_colon_idx(regex): the slice up to the colon is taken by bytes and
\* panics off a character boundary; an identifier before the colon names
\* the regex after it.
regex_component(regex, colon) ==
    IF colon = -1 THEN [panicked |-> FALSE, component |-> Regex(regex)]
    ELSE IF ~is_char_boundary(regex, colon) THEN [panicked |-> TRUE, component |-> Regex(regex)]
    ELSE IF is_identifier(slice_to(regex, colon))
    THEN [panicked |-> FALSE,
          component |-> NamedRegex(slice_to(regex, colon),
                                   SubSeq(regex, colon + 2, Len(regex)))]
    ELSE [panicked |-> FALSE, component |-> Regex(regex)]

\* The result of parse::text_pattern when it panics.
PatternPanic == [panicked |-> TRUE, components |-> <<>>]

\* The loop of parse::text_pattern from position i of s on, with the
\* components pushed and the text collected so far.  overflow_checks tells
\* a build that panics on `0 - 1` from one where it wraps.
RECURSIVE parse_loop(_, _, _, _, _)
RECURSIVE parse_name(_, _, _, _, _, _)
RECURSIVE parse_regex(_, _, _, _, _, _)
parse_loop(s, i, components, current_text, overflow_checks) ==
    IF i > Len(s)
    THEN [panicked |-> FALSE, components |-> Append(components, Text(current_text))]
    ELSE IF s[i] = "$" /\ i < Len(s) /\ s[i + 1] = "$"
    THEN parse_name(s, i + 2, take_while_alphanumeric(s, i + 2),
                    Append(components, Text(current_text)), "Variable", overflow_checks)
    ELSE IF s[i] = "[" /\ i < Len(s) /\ s[i + 1] = "["
    THEN parse_regex(s, i + 2, regex_loop_break(s, i + 2, 0),
                     Append(components, Text(current_text)), overflow_checks,
                     regex_component(SubSeq(s, i + 2, regex_loop_break(s, i + 2, 0) - 1),
                                     first_colon_idx(SubSeq(s, i + 2,
                                                     regex_loop_break(s, i + 2, 0) - 1))))
    ELSE IF s[i] = "@"
    THEN parse_name(s, i + 1, take_while_alphanumeric(s, i + 1),
                    Append(components, Text(current_text)), "Constant", overflow_checks)
    ELSE parse_loop(s, i + 1, components, Append(current_text, s[i]), overflow_checks)

\* The `$$` and `@` arms after complete_text: the name is s[p..name_end].
parse_name(s, p, name_end, components, type, overflow_checks) ==
    IF name_end < p /\ overflow_checks
    THEN PatternPanic
    ELSE parse_loop(s, skip_name(s, p, str_len(s, p, name_end)),
                    Append(components,
                           IF type = "Variable" THEN Variable(SubSeq(s, p, name_end))
                           ELSE Constant(SubSeq(s, p, name_end))),
                    <<>>, overflow_checks)

\* The `[[` arm after its inner loop broke at position break.
parse_regex(s, p, break, components, overflow_checks, pushed) ==
    IF pushed.panicked
    THEN PatternPanic
    ELSE parse_loop(s, IF break > Len(s) THEN break ELSE break + 2,
                    Append(components, pushed.component), <<>>, overflow_checks)

\* parse::text_pattern.
parse_text_pattern(s, overflow_checks) == parse_loop(s, 1, <<>>, <<>>, overflow_checks)

\* ------------------------------------------------------------------------
\* The parser of test files (parse.rs).  The text of a file is a sequence
\* of tokens: a run of the characters A-Z and `-` is one token, every
\* other character is a token of its own.
\* ------------------------------------------------------------------------

\* Most lines of a parsed file.
MaxLines == 3

\* The lines files are made of: an empty line, plain text, a RUN behind a
\* comment marker, a CHECK, a CHECK-NEXT, an XFAIL, an unknown directive,
\* a RUN parted from its colon, a CHECK of a constant without a name, and
\* a second unknown directive.
FileLines ==
    { <<>>,
      <<"x">>,
      <<";", " ", "RUN", ":", " ", "r", " ", " ", "@", "c", "c", " ">>,
      <<"CHECK", ":", " ", "x">>,
      <<"CHECK-NEXT", ":", "[", "[", "X", ":", ".", "]", "]">>,
      <<"XFAIL", ":">>,
      <<"FOO", ":", "x">>,
      <<"RUN", " ", ":", "r">>,
      <<"CHECK", ":", "@">>,
      <<"BAR-", ":">> }

\* The texts of exactly n lines, each line but the last ended by "\n".
RECURSIVE TestBodiesOfLines(_)
TestBodiesOfLines(n) ==
    IF n = 1 THEN FileLines
    ELSE { body \o <<"\n">> \o line : body \in TestBodiesOfLines(n - 1), line \in FileLines }

\* The texts given to parse::test_file.
TestBodies == UNION { TestBodiesOfLines(n) : n \in 1..MaxLines }

\* str::lines: the text split at every "\n", without an empty last line.
RECURSIVE lines(_)
lines(body) ==
    IF body = <<>> THEN <<>>
    ELSE IF FindNewline(body) = 0 THEN <<body>>
    ELSE <<SubSeq(body, 1, FindNewline(body) - 1)>>
            \o lines(SliceFrom(body, FindNewline(body) + 1))

\* The token is a run of the characters [A-Z-].
is_directive_run(token) ==
    /\ Len(token) >= 1
    /\ \A i \in 1..Len(token) :
          SubSeq(token, i, i) \in
             { "-", "A", "B", "C", "D", "E", "F", "G", "H", "I", "J", "K", "L", "M",
               "N", "O", "P", "Q", "R", "S", "T", "U", "V", "W", "X", "Y", "Z" }

\* The leftmost match of DIRECTIVE_REGEX in the line: the position of the
\* first run of [A-Z-] that a colon follows, or 0 without a match.
directive_match(line) ==
    IF \E i \in 1..(Len(line) - 1) : is_directive_run(line[i]) /\ line[i + 1] = ":"
    THEN CHOOSE i \in 1..(Len(line) - 1) :
            /\ is_directive_run(line[i]) /\ line[i + 1] = ":"
            /\ \A j \in 1..(i - 1) : ~(is_directive_run(line[j]) /\ line[j + 1] = ":")
    ELSE 0

\* str::trim_start.
RECURSIVE trim_start(_)
trim_start(s) ==
    IF s # <<>> /\ is_whitespace(Head(s)) THEN trim_start(Tail(s)) ELSE s

\* str::trim_end.
RECURSIVE trim_end(_)
trim_end(s) ==
    IF s # <<>> /\ is_whitespace(s[Len(s)]) THEN trim_end(SubSeq(s, 1, Len(s) - 1)) ELSE s

\* str::trim.
trim(s) == trim_end(trim_start(s))

\* parse::invocation of split_whitespace of a trimmed string: the words
\* joined by one space each.
RECURSIVE join_words(_)
join_words(s) ==
    IF s = <<>> THEN <<>>
    ELSE IF is_whitespace(Head(s))
    THEN <<" ">> \o join_words(trim_start(s))
    ELSE <<Head(s)>> \o join_words(Tail(s))

\* Command::new(kind, line).
Command_new(kind, line) == [line_number |-> line] @@ kind

\* unknown_command taking the line for one without a directive: None.
unknown_command_skipped(command_str) ==
    [status |-> "None", command |-> XFail, error |-> ""]

\* The last arm of the match on command_str of possible_command:
\* Some(Err(..)) naming the word.
unknown_command(command_str) ==
    [status |-> "Err", command |-> XFail,
     error |-> "command '" \o command_str \o "' not known"]

\* The match on command_str of possible_command: Some(Ok(command)), or
\* Some(Err(..)) for a word that is no command; the parse of the pattern
\* may panic.
command_of(command_str, after_command_str, line, parsed) ==
    CASE command_str = "RUN" ->
            [status |-> "Ok", command |-> Command_new(Run(join_words(after_command_str)), line),
             error |-> ""]
      [] command_str = "CHECK" ->
            IF parsed.panicked THEN [status |-> "Panic", command |-> XFail, error |-> ""]
            ELSE [status |-> "Ok", command |-> Command_new(CheckCmd(parsed.components), line),
                  error |-> ""]
      [] command_str = "CHECK-NEXT" ->
            IF parsed.panicked THEN [status |-> "Panic", command |-> XFail, error |-> ""]
            ELSE [status |-> "Ok",
                  command |-> Command_new(CheckNextCmd(parsed.components), line),
                  error |-> ""]
      [] command_str = "XFAIL" ->
            [status |-> "Ok", command |-> Command_new(XFail, line), error |-> ""]
      [] OTHER -> unknown_command(command_str)

\* parse::possible_command, the directive matching at position at of the
\* line (0: no match, which is None).
possible_command_at(string, line, at, overflow_checks) ==
    IF at = 0 THEN [status |-> "None", command |-> XFail, error |-> ""]
    ELSE command_of(string[at], trim(SubSeq(string, at + 2, Len(string))), line,
                    parse_text_pattern(trim(SubSeq(string, at + 2, Len(string))),
                                       overflow_checks))

\* parse::possible_command.
possible_command(string, line, overflow_checks) ==
    possible_command_at(string, line, directive_match(string), overflow_checks)

\* line_number taken as the index of the line, counted from 0.
line_number_zero_based(idx) == idx

\* let line_number = line_idx + 1.
line_number_of(idx) == idx + 1

\* ------------------------------------------------------------------------
\* State.
\* ------------------------------------------------------------------------

VARIABLES
    debug_assertions, \* TRUE in a debug build, FALSE in a release build
    test_run_state,   \* the TestRunState of the RUN being evaluated
    last,             \* the last call made on test_run_state: its kind, its
                      \* pattern, the state before it and its result
    panicked,         \* TRUE once a call has panicked
    pc,               \* where run::tests is
    remaining,        \* number of discovered test files not yet run
    test_file,        \* the commands of the test file being run
    run_idx,          \* index of the next RUN of test_file (execute_tests)
    current_run,      \* invocation, command line and output of the RUN
                      \* whose commands are being walked
    cmd_idx,          \* index of the next command (run_test_checks)
    check_result,     \* check_result of run_test_checks
    test_results,     \* the per-RUN results execute_tests has collected
    raw_results,      \* per RUN: the result before the XFAIL match
    result,           \* the TestResult given to the last on_test_finished
    events,           \* the calls received by the event handler
    has_failure,      \* has_failure of run::tests
    returned,         \* what run::tests returned: "None", "Ok" or "Err"
    removed_tempfiles, \* the paths fs::remove_file was called with for the
                      \* RUN whose commands are being walked
    running,          \* the number of RUN subprocesses that were spawned
                      \* and have not exited
    parse_pc,         \* where a directly driven parser is
    pattern_source,   \* s: the string given to parse::text_pattern
    pattern_parsed,   \* p: what parse::text_pattern returned for s
    pattern_rendered, \* format!("{}", p)
    pattern_reparsed, \* what parse::text_pattern returned for the rendering
    test_body,        \* the text given to parse::test_file
    line_idx,         \* line_idx of the loop of parse::test_file
    parsed_commands,  \* commands of parse::test_file
    parse_result,     \* what parse::test_file returned
    constant_spans,   \* the names of the constant spans
                      \* vars::resolve::invocation found in pattern_source
    resolved_command_line, \* what vars::resolve::invocation returned for
                           \* pattern_source
    find_pc,          \* where the discovery of the test files is
    config_test_paths, \* config.test_paths
    found_test_paths, \* test_paths of run::tests: the TestFilePaths
                      \* find_files::with_config returned, not yet run
    finished_test_paths, \* the paths of the TestResults on_test_finished
                      \* has received
    computed          \* the arguments and the result of a direct call of
                      \* relative_path::compute

evalVars == <<debug_assertions, test_run_state, last, panicked>>

suiteVars == <<pc, remaining, test_file, run_idx, current_run, cmd_idx, check_result,
               test_results, raw_results, result, events, has_failure, returned,
               removed_tempfiles, running>>

parseVars == <<parse_pc, pattern_source, pattern_parsed, pattern_rendered,
               pattern_reparsed, test_body, line_idx, parsed_commands, parse_result,
               constant_spans, resolved_command_line>>

findVars == <<find_pc, config_test_paths, found_test_paths, finished_test_paths,
              computed>>

vars == <<debug_assertions, test_run_state, last, panicked, pc, remaining, test_file,
          run_idx, current_run, cmd_idx, check_result, test_results, raw_results,
          result, events, has_failure, returned, removed_tempfiles, running, parse_pc,
          pattern_source, pattern_parsed, pattern_rendered, pattern_reparsed,
          test_body, line_idx, parsed_commands, parse_result, constant_spans,
          resolved_command_line, find_pc, config_test_paths, found_test_paths,
          finished_test_paths, computed>>

\* No result: the call returns nothing.
NoResult == [kind |-> "None"]

\* The record of one call on the evaluator state.
Call(op, pattern, pre, call_result) ==
    [op |-> op, pattern |-> pattern, pre |-> pre, result |-> call_result]

\* No RUN is being walked.
\* The outcome recorded while no RUN is in progress.
NoOutcome == [launched |-> FALSE, error |-> "", stdout |-> <<>>, stderr |-> <<>>, status |-> 0]

NoRun ==
    [invocation |-> <<>>, command_line |-> <<>>,
     program_output |-> ProgramOutput(<<>>, <<>>), outcome |-> NoOutcome]

\* No TestResult has been delivered for the current file.
NoTestResult == [delivered |-> FALSE, overall_result |-> NoResult, individual_run_results |-> <<>>]

\* No pattern has been parsed.
NoPattern == [panicked |-> FALSE, components |-> <<>>]

\* parse::test_file has not returned.
NoParseResult == [status |-> "None", commands |-> <<>>, message |-> ""]

\* No parser is driven.
ParserIdle ==
    /\ parse_pc = "idle"
    /\ pattern_source = <<>>
    /\ pattern_parsed = NoPattern
    /\ pattern_rendered = <<>>
    /\ pattern_reparsed = NoPattern
    /\ test_body = <<>>
    /\ line_idx = 0
    /\ parsed_commands = <<>>
    /\ parse_result = NoParseResult
    /\ constant_spans = <<>>
    /\ resolved_command_line = <<>>

\* relative_path::compute has not been called.
NotComputed == [called |-> FALSE, test_absolute_path |-> <<>>, relative_path |-> <<>>]

\* No test file is looked for.
FinderIdle ==
    /\ find_pc = "idle"
    /\ config_test_paths = <<>>
    /\ found_test_paths = <<>>
    /\ finished_test_paths = <<>>
    /\ computed = NotComputed

\* The suite before run::tests is called.
SuiteIdle ==
    /\ pc = "tests"
    /\ remaining = 0
    /\ test_file = <<>>
    /\ run_idx = 1
    /\ current_run = NoRun
    /\ cmd_idx = 1
    /\ check_result = EmptyTest
    /\ test_results = <<>>
    /\ raw_results = <<>>
    /\ result = NoTestResult
    /\ events = <<>>
    /\ has_failure = FALSE
    /\ returned = "None"
    /\ removed_tempfiles = {}
    /\ running = 0

\* ------------------------------------------------------------------------
\* The evaluator driven directly, as state_tests.rs drives it: a state is
\* constructed, output is appended, and check / check_next are called in
\* any order with any pattern.
\* ------------------------------------------------------------------------

\* The patterns of the directly driven evaluator: x, y, [[X:.]], $$X,
\* [[X: ]][[\b]], the empty pattern, x[[X:.+]].
EvalPatterns ==
    { <<Text(<<"x">>)>>,
      <<Text(<<"y">>)>>,
      <<NamedRegex("X", <<".">>)>>,
      <<Variable("X")>>,
      <<NamedRegex("X", <<" ">>), Regex(<<"\\b">>)>>,
      <<>>,
      <<Text(<<"x">>), NamedRegex("X", <<".", "+">>)>>,
      <<Regex(<<"+">>)>> }

\* The variable maps a directly driven evaluator is constructed with.
EvalInitialVariables ==
    { initial_variables(constants, TestFile_variables(<<>>)) :
        constants \in { [n \in {"file"} |-> <<"x">>],
                        [n \in {"X", "file"} |-> <<"x">>],
                        [n \in {"X", "file"} |-> IF n = "X" THEN <<".">> ELSE <<"x">>] } }

EvalInit ==
    /\ debug_assertions \in BOOLEAN
    /\ \E variables \in EvalInitialVariables :
          test_run_state = TestRunState_new(variables)
    /\ last = Call("new", <<>>, TestRunState_new(EmptyMap), NoResult)
    /\ panicked = FALSE
    /\ SuiteIdle
    /\ ParserIdle
    /\ FinderIdle

\* append_program_output(c) for one character c.
AppendProgramOutput(c) ==
    /\ ~panicked
    /\ Len(test_run_state.complete_output_stream) + Len(c) <= MaxOutLen
    /\ test_run_state' = append_program_output(test_run_state, c)
    /\ last' = Call("append", <<>>, test_run_state, NoResult)
    /\ UNCHANGED <<debug_assertions, panicked>>
    /\ UNCHANGED suiteVars
    /\ UNCHANGED parseVars
    /\ UNCHANGED findVars

\* The directly driven evaluator takes the outcome r of the call op(pattern).
EvalReturn(op, pattern, r) ==
    /\ test_run_state' = r.st
    /\ last' = Call(op, pattern, test_run_state, r.result)
    /\ panicked' = (r.result.kind = "Panic")
    /\ UNCHANGED debug_assertions
    /\ UNCHANGED suiteVars
    /\ UNCHANGED parseVars
    /\ UNCHANGED findVars

\* check(pattern).
Check(pattern) ==
    /\ ~panicked
    /\ EvalReturn("check", pattern, check(test_run_state, pattern, debug_assertions))

\* check_next(pattern).
CheckNext(pattern) ==
    /\ ~panicked
    /\ EvalReturn("check_next", pattern,
                  check_next(test_run_state, pattern, debug_assertions))

EvalNext ==
    \/ \E c \in OutputChars : AppendProgramOutput(c)
    \/ \E pattern \in EvalPatterns : Check(pattern)
    \/ \E pattern \in EvalPatterns : CheckNext(pattern)

SpecEval == EvalInit /\ [][EvalNext]_vars

\* ------------------------------------------------------------------------
\* The evaluator driven directly on output of multi-byte characters.
\* ------------------------------------------------------------------------

\* Most bytes of multi-byte output.
MaxUnicodeLen == 5

\* The characters of multi-byte output, as byte sequences: a two-byte
\* whitespace character, a two-byte word character, a newline and x.
UnicodeChars ==
    { <<WhitespaceLeadByte, WhitespaceContByte>>, <<LeadByte, ContByte>>, <<"\n">>, <<"x">> }

\* The patterns checked against multi-byte output: the two-byte word
\* character, any character, x, x[[\s]] (x followed by one whitespace
\* character), [[X:x]], the pattern without components and the empty text.
UnicodePatterns ==
    { <<Text(<<LeadByte, ContByte>>)>>, <<Regex(<<".">>)>>, <<Text(<<"x">>)>>,
      <<Text(<<"x">>), Regex(<<"\\s">>)>>, <<NamedRegex("X", <<"x">>)>>, <<>>,
      <<Text(<<>>)>> }

UnicodeInit ==
    /\ debug_assertions \in BOOLEAN
    /\ test_run_state = TestRunState_new(EmptyMap)
    /\ last = Call("new", <<>>, TestRunState_new(EmptyMap), NoResult)
    /\ panicked = FALSE
    /\ SuiteIdle
    /\ ParserIdle
    /\ FinderIdle

\* append_program_output(c) for one character c of multi-byte output.
AppendUnicodeOutput(c) ==
    /\ ~panicked
    /\ Len(test_run_state.complete_output_stream) + Len(c) <= MaxUnicodeLen
    /\ test_run_state' = append_program_output(test_run_state, c)
    /\ last' = Call("append", <<>>, test_run_state, NoResult)
    /\ UNCHANGED <<debug_assertions, panicked>>
    /\ UNCHANGED suiteVars
    /\ UNCHANGED parseVars
    /\ UNCHANGED findVars

UnicodeNext ==
    \/ \E c \in UnicodeChars : AppendUnicodeOutput(c)
    \/ \E pattern \in UnicodePatterns : Check(pattern)
    \/ \E pattern \in UnicodePatterns : CheckNext(pattern)

SpecUnicode == UnicodeInit /\ [][UnicodeNext]_vars

\* ------------------------------------------------------------------------
\* The suite driver (run/mod.rs) and the orchestration of one test file
\* (run/test_evaluator.rs).
\* ------------------------------------------------------------------------

\* A call received by the event handler.  count is the number of test files
\* of on_test_suite_started and the discovery index of the path of the
\* TestResult of on_test_finished.
Event(ev, count, kind, passed) == [ev |-> ev, count |-> count, kind |-> kind, passed |-> passed]

Init ==
    /\ debug_assertions = FALSE
    /\ test_run_state = TestRunState_new(EmptyMap)
    /\ last = Call("new", <<>>, TestRunState_new(EmptyMap), NoResult)
    /\ panicked = FALSE
    /\ SuiteIdle
    /\ ParserIdle
    /\ FinderIdle

\* run::tests up to its loop: n test files are discovered; without any, a
\* warning is noted and Err returned.
TestsStart(n) ==
    /\ pc = "tests"
    /\ IF n = 0
       THEN /\ events' = Append(events, Event("note_warning", 0, "", FALSE))
            /\ returned' = "Err"
            /\ pc' = "returned"
            /\ UNCHANGED remaining
       ELSE /\ events' = Append(events, Event("on_test_suite_started", n, "", FALSE))
            /\ remaining' = n
            /\ pc' = "next_file"
            /\ UNCHANGED returned
    /\ has_failure' = FALSE
    /\ UNCHANGED <<test_file, run_idx, current_run, cmd_idx, check_result,
                   test_results, raw_results, result>>
    /\ UNCHANGED evalVars
    /\ UNCHANGED removed_tempfiles
    /\ UNCHANGED running
    /\ UNCHANGED parseVars
    /\ UNCHANGED findVars

\* util::parse_test of the next discovered file, and the entry of
\* single_file and execute_tests.
ParseTest(commands) ==
    /\ pc = "next_file"
    /\ remaining > 0
    /\ test_file' = commands
    /\ run_idx' = 1
    /\ test_results' = <<>>
    /\ raw_results' = <<>>
    /\ result' = NoTestResult
    /\ pc' = "execute_tests"
    /\ UNCHANGED <<remaining, current_run, cmd_idx, check_result, events,
                   has_failure, returned>>
    /\ UNCHANGED evalVars
    /\ UNCHANGED removed_tempfiles
    /\ UNCHANGED running
    /\ UNCHANGED parseVars
    /\ UNCHANGED findVars

\* The ways util::parse_test fails on a discovered file: open_file cannot
\* open it, or parse::test_file returns Err on a malformed directive.
ParseFailures == {"unreadable", "malformed"}

\* util::parse_test failing on the next discovered file.  open_file calls
\* abort, which exits the process; the Err of parse::test_file is unwrapped
\* by run::tests, which panics.  Neither reaches single_file.
ParseTestAborts(failure) ==
    /\ pc = "next_file"
    /\ remaining > 0
    /\ pc' = IF failure = "unreadable" THEN "aborted" ELSE "parse_test_panicked"
    /\ panicked' = (failure = "malformed")
    /\ UNCHANGED <<remaining, test_file, run_idx, current_run, cmd_idx, check_result,
                   test_results, raw_results, result, events, has_failure, returned>>
    /\ UNCHANGED <<debug_assertions, test_run_state, last, removed_tempfiles>>
    /\ UNCHANGED running
    /\ UNCHANGED parseVars
    /\ UNCHANGED findVars

\* Command::output in collect_output, up to the wait: the shell of the
\* next RUN is spawned and runs.
SpawnChild ==
    /\ pc = "execute_tests"
    /\ run_idx <= Len(run_command_invocations(test_file))
    /\ running' = running + 1
    /\ pc' = "output"
    /\ UNCHANGED <<remaining, test_file, run_idx, current_run, cmd_idx, check_result,
                   test_results, raw_results, result, events, has_failure, returned,
                   removed_tempfiles>>
    /\ UNCHANGED evalVars
    /\ UNCHANGED parseVars
    /\ UNCHANGED findVars

\* child_exited leaving the child behind, running.
child_left_running(children) == children

\* Command::output returning Ok: the child has exited and is waited for.
child_exited(children) == children - 1

\* The line indices of the RUN commands of a file, in file order.
RunLines(commands) == { i \in 1..Len(commands) : commands[i].kind = "Run" }

\* The index of the k-th RUN command of a file.
RunLine(commands, k) ==
    CHOOSE i \in RunLines(commands) :
        Cardinality({ j \in RunLines(commands) : j <= i }) = k

\* first_command starting behind the line of the RUN.
first_command_after_run(commands, idx) == RunLine(commands, idx) + 1

\* test_file.commands.iter() of run_test_checks: the walk of every RUN
\* starts at the first command of the file.
first_command(commands, idx) == 1

\* next_invocation stopping at the first erroneous RUN.
stop_after_erroneous(idx, run_result, invocations) ==
    IF is_erroneous(run_result) THEN Len(invocations) + 1 ELSE idx + 1

\* The map of execute_tests over run_command_invocations: whatever the
\* closure returned for one invocation, it is called for the next.
next_invocation(idx, run_result, invocations) == idx + 1

\* The closure of execute_tests for the next RUN, up to run_test_checks:
\* the state is created, the command built and run, its output appended.
\* An erroneous execution ends the RUN with that result.  Command::output
\* either fails to spawn the shell or returns once the spawned shell has
\* exited.
SpawnRun(outcome) ==
    /\ IF outcome.launched THEN pc = "output" ELSE pc = "execute_tests"
    /\ run_idx <= Len(run_command_invocations(test_file))
    /\ running' = IF outcome.launched THEN child_exited(running) ELSE running
    /\ LET invocation == run_command_invocations(test_file)[run_idx]
           variables == initial_variables(ConfigConstants, TestFile_variables(test_file))
           command_line == build_command(invocation, test_file)
           collected == collect_output(outcome, command_line, ConfigShell)
           program_output == collected.program_output
           execution_result == collected.result
           state == append_program_stderr(
                        append_program_output(TestRunState_new(variables),
                                              program_output.stdout),
                        program_output.stderr)
           run == [invocation |-> invocation, command_line |-> command_line,
                   program_output |-> program_output, outcome |-> outcome]
       IN /\ test_run_state' = state
          /\ last' = Call("spawn", <<>>, test_run_state, execution_result)
          /\ IF is_erroneous(execution_result)
             THEN /\ test_results' = Append(test_results,
                                            [result |-> execution_result] @@ run)
                  /\ raw_results' = Append(raw_results, execution_result)
                  /\ run_idx' = next_invocation(run_idx, execution_result,
                                                run_command_invocations(test_file))
                  /\ current_run' = NoRun
                  /\ pc' = "execute_tests"
                  /\ UNCHANGED <<cmd_idx, check_result>>
             ELSE /\ current_run' = run
                  /\ cmd_idx' = first_command(test_file, run_idx)
                  /\ check_result' = EmptyTest
                  /\ pc' = IF first_command(test_file, run_idx) > Len(test_file)
                           THEN "checks_done" ELSE "run_test_checks"
                  /\ UNCHANGED <<test_results, raw_results, run_idx>>
    /\ removed_tempfiles' = {}
    /\ UNCHANGED <<debug_assertions, panicked, remaining, test_file, result, events,
                   has_failure, returned>>
    /\ UNCHANGED parseVars
    /\ UNCHANGED findVars

\* The match on command.kind in the loop of run_test_checks: the state the
\* command leaves and its result.
evaluate_command(command, st, debug) ==
    CASE command.kind = "Check" -> check(st, command.pattern, debug)
      [] command.kind = "CheckNext" -> check_next(st, command.pattern, debug)
      [] OTHER -> [st |-> st, result |-> Pass]

\* The name of the evaluator call a command makes.
CallOf(command) ==
    CASE command.kind = "Check" -> "check"
      [] command.kind = "CheckNext" -> "check_next"
      [] OTHER -> "skip"

\* The cleanup in the loop body of run_test_checks: after the command,
\* whatever its result, every tempfile path of the variables is removed.
remove_tempfiles(removed, variables) ==
    IF cleanup_temporary_files
    THEN removed \cup tempfile_paths(variables)
    ELSE removed

\* The rest of the loop body of run_test_checks, given what the command
\* evaluated to: the tempfiles are removed, an erroneous result breaks the
\* loop, a panic unwinds.
CommandReturn(command, evaluated) ==
    /\ test_run_state' = evaluated.st
    /\ last' = Call(CallOf(command), command.pattern, test_run_state, evaluated.result)
    /\ IF evaluated.result.kind = "Panic"
       THEN /\ panicked' = TRUE
            /\ pc' = "panicked"
            /\ UNCHANGED <<cmd_idx, check_result, removed_tempfiles>>
       ELSE /\ removed_tempfiles' = remove_tempfiles(removed_tempfiles, evaluated.st.variables)
            /\ IF is_erroneous(evaluated.result)
               THEN /\ check_result' = evaluated.result
                    /\ pc' = "checks_done"
                    /\ UNCHANGED <<cmd_idx, panicked>>
               ELSE /\ check_result' = Pass
                    /\ cmd_idx' = cmd_idx + 1
                    /\ pc' = IF cmd_idx + 1 > Len(test_file)
                             THEN "checks_done" ELSE "run_test_checks"
                    /\ UNCHANGED panicked
    /\ UNCHANGED <<debug_assertions, remaining, test_file, run_idx, current_run,
                   test_results, raw_results, result, events, has_failure, returned>>
    /\ UNCHANGED running
    /\ UNCHANGED parseVars
    /\ UNCHANGED findVars

\* One iteration of the loop of run_test_checks: the next command of the
\* file is evaluated; an erroneous result breaks the loop.
WalkCommand ==
    /\ pc = "run_test_checks"
    /\ cmd_idx <= Len(test_file)
    /\ CommandReturn(test_file[cmd_idx],
                     evaluate_command(test_file[cmd_idx], test_run_state,
                                      debug_assertions))

\* The end of run_test_checks and of the closure of execute_tests: the
\* XFAIL match, and the result of the RUN is collected.
FinishRun ==
    /\ pc = "checks_done"
    /\ LET overall_test_result_kind == run_test_checks_result(check_result, test_file)
       IN /\ test_results' = Append(test_results,
                                    [result |-> overall_test_result_kind] @@ current_run)
          /\ raw_results' = Append(raw_results, check_result)
          /\ run_idx' = next_invocation(run_idx, overall_test_result_kind,
                                        run_command_invocations(test_file))
    /\ current_run' = NoRun
    /\ pc' = "execute_tests"
    /\ UNCHANGED <<remaining, test_file, cmd_idx, check_result, result, events,
                   has_failure, returned>>
    /\ UNCHANGED evalVars
    /\ UNCHANGED removed_tempfiles
    /\ UNCHANGED running
    /\ UNCHANGED parseVars
    /\ UNCHANGED findVars

\* TestSuiteDetails::number_of_test_files, as given to on_test_suite_started.
number_of_test_files == events[1].count

\* single_file after execute_tests: the overall result is computed and
\* given to on_test_finished.  The locals of execute_tests are gone.
SingleFileFinish ==
    /\ pc = "execute_tests"
    /\ run_idx > Len(run_command_invocations(test_file))
    /\ result' = [delivered |-> TRUE,
                  overall_result |-> overall_result_of(test_results),
                  individual_run_results |-> test_results]
    /\ events' = Append(events,
                        Event("on_test_finished",
                              next_path(number_of_test_files, remaining),
                              overall_result_of(test_results).kind, FALSE))
    /\ pc' = "single_file_returned"
    /\ test_run_state' = TestRunState_new(EmptyMap)
    /\ last' = Call("new", <<>>, TestRunState_new(EmptyMap), NoResult)
    /\ cmd_idx' = 1
    /\ check_result' = EmptyTest
    /\ removed_tempfiles' = {}
    /\ UNCHANGED <<remaining, test_file, run_idx, current_run, test_results,
                   raw_results, has_failure, returned>>
    /\ UNCHANGED <<debug_assertions, panicked>>
    /\ UNCHANGED running
    /\ UNCHANGED parseVars
    /\ UNCHANGED findVars

\* The rest of the loop body of run::tests: single_file returned whether
\* the file was successful, and the test file is dropped.
TestsLoop ==
    /\ pc = "single_file_returned"
    /\ has_failure' = update_has_failure(has_failure, ~is_erroneous(result.overall_result))
    /\ remaining' = remaining - 1
    /\ test_file' = <<>>
    /\ run_idx' = 1
    /\ test_results' = <<>>
    /\ raw_results' = <<>>
    /\ result' = NoTestResult
    /\ pc' = "next_file"
    /\ UNCHANGED <<current_run, cmd_idx, check_result, events, returned>>
    /\ UNCHANGED evalVars
    /\ UNCHANGED removed_tempfiles
    /\ UNCHANGED running
    /\ UNCHANGED parseVars
    /\ UNCHANGED findVars

\* run::tests after its loop: on_test_suite_finished, and the return.
TestsFinish ==
    /\ pc = "next_file"
    /\ remaining = 0
    /\ events' = Append(events, Event("on_test_suite_finished", 0, "", ~has_failure))
    /\ returned' = IF ~has_failure THEN "Ok" ELSE "Err"
    /\ pc' = "returned"
    /\ UNCHANGED <<remaining, test_file, run_idx, current_run, cmd_idx, check_result,
                   test_results, raw_results, result, has_failure>>
    /\ UNCHANGED evalVars
    /\ UNCHANGED removed_tempfiles
    /\ UNCHANGED running
    /\ UNCHANGED parseVars
    /\ UNCHANGED findVars

Next ==
    \/ \E n \in 0..MaxFiles : TestsStart(n)
    \/ \E commands \in TestFiles : ParseTest(commands)
    \/ \E failure \in ParseFailures : ParseTestAborts(failure)
    \/ SpawnChild
    \/ \E outcome \in ProcessOutcomes : SpawnRun(outcome)
    \/ WalkCommand
    \/ FinishRun
    \/ SingleFileFinish
    \/ TestsLoop
    \/ TestsFinish

Spec == Init /\ [][Next]_vars

\* ------------------------------------------------------------------------
\* parse::text_pattern and Display, driven directly: a source is parsed,
\* the pattern rendered, and the rendering parsed again.
\* ------------------------------------------------------------------------

PatternInit ==
    /\ debug_assertions \in BOOLEAN
    /\ test_run_state = TestRunState_new(EmptyMap)
    /\ last = Call("new", <<>>, TestRunState_new(EmptyMap), NoResult)
    /\ panicked = FALSE
    /\ SuiteIdle
    /\ FinderIdle
    /\ parse_pc = "text_pattern"
    /\ pattern_source \in PatternSources
    /\ pattern_parsed = NoPattern
    /\ pattern_rendered = <<>>
    /\ pattern_reparsed = NoPattern
    /\ test_body = <<>>
    /\ line_idx = 0
    /\ parsed_commands = <<>>
    /\ parse_result = NoParseResult
    /\ constant_spans = <<>>
    /\ resolved_command_line = <<>>

\* p = parse::text_pattern(s).  Overflow checks are on in a debug build.
ParseTextPattern ==
    /\ parse_pc = "text_pattern"
    /\ pattern_parsed' = parse_text_pattern(pattern_source, debug_assertions)
    /\ panicked' = pattern_parsed'.panicked
    /\ parse_pc' = IF pattern_parsed'.panicked THEN "panicked" ELSE "display"
    /\ UNCHANGED <<pattern_source, pattern_rendered, pattern_reparsed, test_body,
                   line_idx, parsed_commands, parse_result>>
    /\ UNCHANGED <<debug_assertions, test_run_state, last>>
    /\ UNCHANGED suiteVars
    /\ UNCHANGED findVars
    /\ UNCHANGED <<constant_spans, resolved_command_line>>

\* format!("{}", p).
DisplayPattern ==
    /\ parse_pc = "display"
    /\ pattern_rendered' = Display(pattern_parsed.components, 1)
    /\ parse_pc' = "reparse"
    /\ UNCHANGED <<pattern_source, pattern_parsed, pattern_reparsed, test_body,
                   line_idx, parsed_commands, parse_result>>
    /\ UNCHANGED evalVars
    /\ UNCHANGED suiteVars
    /\ UNCHANGED findVars
    /\ UNCHANGED <<constant_spans, resolved_command_line>>

\* parse::text_pattern of the rendering.
ReparsePattern ==
    /\ parse_pc = "reparse"
    /\ pattern_reparsed' = parse_text_pattern(pattern_rendered, debug_assertions)
    /\ panicked' = pattern_reparsed'.panicked
    /\ parse_pc' = IF pattern_reparsed'.panicked THEN "panicked" ELSE "reparsed"
    /\ UNCHANGED <<pattern_source, pattern_parsed, pattern_rendered, test_body,
                   line_idx, parsed_commands, parse_result>>
    /\ UNCHANGED <<debug_assertions, test_run_state, last>>
    /\ UNCHANGED suiteVars
    /\ UNCHANGED findVars
    /\ UNCHANGED <<constant_spans, resolved_command_line>>

PatternNext ==
    \/ ParseTextPattern
    \/ DisplayPattern
    \/ ReparsePattern

SpecPattern == PatternInit /\ [][PatternNext]_vars

\* ------------------------------------------------------------------------
\* A reference to a constant, taken as a pattern by parse::text_pattern
\* and as an invocation by vars::resolve::invocation.
\* ------------------------------------------------------------------------

\* Most characters of the name of a constant.
MaxNameLen == 3

\* The characters names of constants are made of: a letter, a digit and
\* the underscore.
NameChars == {"a", "1", "_"}

\* All names of exactly n characters.
RECURSIVE NamesOfLen(_)
NamesOfLen(n) ==
    IF n = 0 THEN { <<>> }
    ELSE { Append(name, c) : name \in NamesOfLen(n - 1), c \in NameChars }

\* The names of the configured constants.
ConstantNames == UNION { NamesOfLen(n) : n \in 1..MaxNameLen }

\* Most characters of an invocation resolved on its own.
MaxInvocationLen == 4

\* The names the invocations can hold, as sequences of characters.
InvocationNames ==
    UNION { { name \in NamesOfLen(n) : \A i \in 1..n : name[i] \in ConstantNameChars }
            : n \in 1..(MaxInvocationLen + MaxNameLen) }

\* The constants invocations are resolved against: every name has a value,
\* the name between `<` and `>`.
InvocationConstants ==
    [n \in { ConstantSpanName(name, 1, Len(name)) : name \in InvocationNames } |->
        <<"<">> \o (CHOOSE name \in InvocationNames : ConstantSpanName(name, 1, Len(name)) = n)
                \o <<">">>]

ConstantInit ==
    /\ debug_assertions \in BOOLEAN
    /\ test_run_state = TestRunState_new(EmptyMap)
    /\ last = Call("new", <<>>, TestRunState_new(EmptyMap), NoResult)
    /\ panicked = FALSE
    /\ SuiteIdle
    /\ FinderIdle
    /\ parse_pc = "constant"
    /\ pattern_source \in { <<"@">> \o name : name \in ConstantNames }
    /\ pattern_parsed = NoPattern
    /\ pattern_rendered = <<>>
    /\ pattern_reparsed = NoPattern
    /\ test_body = <<>>
    /\ line_idx = 0
    /\ parsed_commands = <<>>
    /\ parse_result = NoParseResult
    /\ constant_spans = <<>>
    /\ resolved_command_line = <<>>

\* The reference as the pattern of a CHECK: parse::text_pattern.
ParseConstantPattern ==
    /\ parse_pc = "constant"
    /\ pattern_parsed' = parse_text_pattern(pattern_source, debug_assertions)
    /\ panicked' = pattern_parsed'.panicked
    /\ parse_pc' = "invocation"
    /\ UNCHANGED <<pattern_source, pattern_rendered, pattern_reparsed, test_body,
                   line_idx, parsed_commands, parse_result, constant_spans,
                   resolved_command_line>>
    /\ UNCHANGED <<debug_assertions, test_run_state, last>>
    /\ UNCHANGED suiteVars
    /\ UNCHANGED findVars

\* The reference as the tail of a RUN: the spans of
\* vars::resolve::invocation.
ResolveConstantInvocation ==
    /\ parse_pc = "invocation"
    /\ constant_spans' = constant_span_names(pattern_source, 1)
    /\ resolved_command_line' = resolve_invocation(pattern_source, 1, InvocationConstants)
    /\ parse_pc' = "resolved"
    /\ UNCHANGED <<pattern_source, pattern_parsed, pattern_rendered, pattern_reparsed,
                   test_body, line_idx, parsed_commands, parse_result>>
    /\ UNCHANGED evalVars
    /\ UNCHANGED suiteVars
    /\ UNCHANGED findVars

ConstantNext ==
    \/ ParseConstantPattern
    \/ ResolveConstantInvocation

SpecConstant == ConstantInit /\ [][ConstantNext]_vars

\* ------------------------------------------------------------------------
\* vars::resolve::invocation, driven directly on original commands.
\* ------------------------------------------------------------------------

\* The characters of the commands: the `@`, two name characters, a digit
\* and a space.
InvocationChars == {"@", "a", "_", "1", " "}

\* All commands of exactly n characters.
RECURSIVE InvocationsOfLen(_)
InvocationsOfLen(n) ==
    IF n = 0 THEN { <<>> }
    ELSE { Append(cmd, c) : cmd \in InvocationsOfLen(n - 1), c \in InvocationChars }

InvocationInit ==
    /\ debug_assertions \in BOOLEAN
    /\ test_run_state = TestRunState_new(EmptyMap)
    /\ last = Call("new", <<>>, TestRunState_new(EmptyMap), NoResult)
    /\ panicked = FALSE
    /\ SuiteIdle
    /\ FinderIdle
    /\ parse_pc = "invocation"
    /\ pattern_source \in UNION { InvocationsOfLen(n) : n \in 0..MaxInvocationLen }
    /\ pattern_parsed = NoPattern
    /\ pattern_rendered = <<>>
    /\ pattern_reparsed = NoPattern
    /\ test_body = <<>>
    /\ line_idx = 0
    /\ parsed_commands = <<>>
    /\ parse_result = NoParseResult
    /\ constant_spans = <<>>
    /\ resolved_command_line = <<>>

SpecInvocation == InvocationInit /\ [][ResolveConstantInvocation]_vars

\* ------------------------------------------------------------------------
\* parse::test_file, driven directly: one action per iteration of its loop
\* over the lines, one for its return.
\* ------------------------------------------------------------------------

FileInit ==
    /\ debug_assertions \in BOOLEAN
    /\ test_run_state = TestRunState_new(EmptyMap)
    /\ last = Call("new", <<>>, TestRunState_new(EmptyMap), NoResult)
    /\ panicked = FALSE
    /\ SuiteIdle
    /\ FinderIdle
    /\ parse_pc = "test_file"
    /\ pattern_source = <<>>
    /\ pattern_parsed = NoPattern
    /\ pattern_rendered = <<>>
    /\ pattern_reparsed = NoPattern
    /\ test_body \in TestBodies
    /\ line_idx = 0
    /\ parsed_commands = <<>>
    /\ parse_result = NoParseResult
    /\ constant_spans = <<>>
    /\ resolved_command_line = <<>>

\* The body of the loop of parse::test_file for the line at line_idx,
\* possible being what possible_command returned for it.
ParseLineReturn(possible) ==
    /\ line_idx' = line_idx + 1
    /\ CASE possible.status = "Ok" ->
              /\ parsed_commands' = Append(parsed_commands, possible.command)
              /\ UNCHANGED <<parse_pc, parse_result, panicked>>
         [] possible.status = "Err" ->
              /\ parse_result' = [status |-> "Err", commands |-> <<>>,
                                  message |-> "could not parse command: " \o possible.error]
              /\ parse_pc' = "returned"
              /\ UNCHANGED <<parsed_commands, panicked>>
         [] possible.status = "Panic" ->
              /\ panicked' = TRUE
              /\ parse_pc' = "panicked"
              /\ UNCHANGED <<parsed_commands, parse_result>>
         [] OTHER ->
              UNCHANGED <<parse_pc, parsed_commands, parse_result, panicked>>
    /\ UNCHANGED <<pattern_source, pattern_parsed, pattern_rendered, pattern_reparsed,
                   test_body>>
    /\ UNCHANGED <<debug_assertions, test_run_state, last>>
    /\ UNCHANGED suiteVars
    /\ UNCHANGED findVars
    /\ UNCHANGED <<constant_spans, resolved_command_line>>

\* One iteration of the loop of parse::test_file.
ParseLine ==
    /\ parse_pc = "test_file"
    /\ line_idx < Len(lines(test_body))
    /\ ParseLineReturn(possible_command(lines(test_body)[line_idx + 1],
                                        line_number_of(line_idx), debug_assertions))

\* parse::test_file after its loop: Ok(TestFile { path, commands }).
ReturnTestFile ==
    /\ parse_pc = "test_file"
    /\ line_idx = Len(lines(test_body))
    /\ parse_result' = [status |-> "Ok", commands |-> parsed_commands, message |-> ""]
    /\ parse_pc' = "returned"
    /\ UNCHANGED <<pattern_source, pattern_parsed, pattern_rendered, pattern_reparsed,
                   test_body, line_idx, parsed_commands>>
    /\ UNCHANGED evalVars
    /\ UNCHANGED suiteVars
    /\ UNCHANGED findVars
    /\ UNCHANGED <<constant_spans, resolved_command_line>>

FileNext ==
    \/ ParseLine
    \/ ReturnTestFile

SpecFile == FileInit /\ [][FileNext]_vars

\* ------------------------------------------------------------------------
\* The discovery of the test files (run/find_files.rs) and the loop of
\* run::tests over them.  A path is the sequence of its components below
\* the root; the root is the empty sequence.
\* ------------------------------------------------------------------------

\* The largest number of configured test paths.
MaxTestPaths == 2

\* The directories on disk.
DiskDirs == {<<"a">>, <<"a", "b">>, <<"c">>}

\* The files on disk, in the order WalkDir visits them.
DiskFiles ==
    << <<"a", "b", "g.txt">>, <<"a", "f.txt">>, <<"a", "n.md">>, <<"c", "h.txt">> >>

\* The paths a configuration may name: the directories, the files and a
\* path that does not exist.
ConfiguredPaths == DiskDirs \cup { DiskFiles[i] : i \in 1..Len(DiskFiles) } \cup {<<"x">>}

\* Config::supported_file_extensions.
supported_file_extensions == {"txt"}

\* Config::is_extension_supported.
is_extension_supported(ext) == ext \in supported_file_extensions

\* Path::starts_with: base is made of the leading components of path.
starts_with(path, base) ==
    /\ Len(base) <= Len(path)
    /\ SubSeq(path, 1, Len(base)) = base

\* Path::strip_prefix, an Option.
strip_prefix(path, base) ==
    IF starts_with(path, base) THEN <<SubSeq(path, Len(base) + 1, Len(path))>> ELSE <<>>

\* Path::parent of a path below the root.
parent(path) == SubSeq(path, 1, Len(path) - 1)

\* Path::file_name, an Option: the root has none.
file_name(path) == IF path = <<>> THEN <<>> ELSE <<path[Len(path)]>>

RECURSIVE extension_from(_, _)
\* Path::extension, an Option: what follows the last '.' of the file
\* name, unless the name only starts with it.
extension_from(name, i) ==
    IF i <= 1 THEN <<>>
    ELSE IF SubSeq(name, i, i) = "." THEN <<SubSeq(name, i + 1, Len(name))>>
    ELSE extension_from(name, i - 1)

\* files_in_dir: every file WalkDir finds below path.
files_in_dir(path) ==
    SelectSeq(DiskFiles, LAMBDA f : starts_with(f, path) /\ f # path)

\* The filter of tests_in_dir.
has_supported_extension(f) ==
    /\ extension_from(f[Len(f)], Len(f[Len(f)])) # <<>>
    /\ is_extension_supported(extension_from(f[Len(f)], Len(f[Len(f)]))[1])

\* tests_in_dir: the files below path with a supported extension.
tests_in_dir(path) == SelectSeq(files_in_dir(path), has_supported_extension)

\* in_path: the tests of a directory, the path itself for a file, an
\* error for a path without metadata.
in_path(path) ==
    IF path \notin ConfiguredPaths \ {<<"x">>}
    THEN [ok |-> FALSE, paths |-> <<>>]
    ELSE IF path \in DiskDirs
    THEN [ok |-> TRUE, paths |-> tests_in_dir(path)]
    ELSE [ok |-> TRUE, paths |-> <<path>>]

\* fewest_components preferring the path with the most components.
most_components(path, best) == Len(path) + 1 >= Len(best) + 1

\* The key comparison of min_by_key: path has fewer components than best.
\* (components().count() counts the root as well, on both sides.)
fewest_components(path, best) == Len(path) + 1 < Len(best) + 1

RECURSIVE min_by_key_components(_, _, _, _)
\* filter(starts_with).min_by_key(components().count()) over
\* test_paths[i..]: the first of the matching paths with the least key.
min_by_key_components(test_absolute_path, test_paths, i, best) ==
    IF i > Len(test_paths) THEN best
    ELSE min_by_key_components(test_absolute_path, test_paths, i + 1,
            IF /\ starts_with(test_absolute_path, test_paths[i])
               /\ (best = <<>> \/ fewest_components(test_paths[i], best[1]))
            THEN <<test_paths[i]>>
            ELSE best)

\* relative_path::least_specific_parent_test_search_directory_path.
least_specific_parent_test_search_directory_path(test_absolute_path, test_paths) ==
    min_by_key_components(test_absolute_path, test_paths, 1, <<>>)

RECURSIVE common_ancestor(_, _, _)
\* test_path.ancestors().find(|p| current.starts_with(p)): the deepest
\* ancestor of test_path, itself included, that current starts with.
common_ancestor(test_path, n, current) ==
    IF starts_with(current, SubSeq(test_path, 1, n)) THEN <<SubSeq(test_path, 1, n)>>
    ELSE IF n = 0 THEN <<>>
    ELSE common_ancestor(test_path, n - 1, current)

RECURSIVE current_path_containing_everything_so_far(_, _, _)
\* The loop of most_common_test_path_ancestor over test_paths[i..].
current_path_containing_everything_so_far(test_paths, i, current) ==
    IF i > Len(test_paths) THEN current
    ELSE current_path_containing_everything_so_far(test_paths, i + 1,
            IF /\ ~starts_with(test_paths[i], current)
               /\ common_ancestor(test_paths[i], Len(test_paths[i]), current) # <<>>
               /\ file_name(common_ancestor(test_paths[i], Len(test_paths[i]), current)[1]) # <<>>
            THEN common_ancestor(test_paths[i], Len(test_paths[i]), current)[1]
            ELSE current)

\* relative_path::most_common_test_path_ancestor.
most_common_test_path_ancestor(test_absolute_path, test_paths) ==
    IF current_path_containing_everything_so_far(test_paths, 1, parent(test_absolute_path))
          # parent(test_absolute_path)
    THEN <<current_path_containing_everything_so_far(test_paths, 1, parent(test_absolute_path))>>
    ELSE <<>>

\* take_path_relative_to_dir of relative_path::compute, an Option.
take_path_relative_to_dir(test_absolute_path, test_paths) ==
    IF least_specific_parent_test_search_directory_path(test_absolute_path, test_paths) # <<>>
    THEN least_specific_parent_test_search_directory_path(test_absolute_path, test_paths)
    ELSE most_common_test_path_ancestor(test_absolute_path, test_paths)

\* The closure of relative_path::compute: strip_prefix(..).expect(..).
strip_expected(test_absolute_path, relative_to) ==
    IF relative_to = <<>>
    THEN [panicked |-> FALSE, relative_path |-> <<>>]
    ELSE [panicked |-> strip_prefix(test_absolute_path, relative_to[1]) = <<>>,
          relative_path |-> strip_prefix(test_absolute_path, relative_to[1])]

\* relative_path::compute.
compute(test_absolute_path, test_paths) ==
    strip_expected(test_absolute_path,
                   take_path_relative_to_dir(test_absolute_path, test_paths))

RECURSIVE absolute_paths_in(_, _, _)
\* The first loop of with_config over test_paths[i..]: the paths found so
\* far are extended by those of the next configured path.
absolute_paths_in(test_paths, i, absolute_paths) ==
    IF i > Len(test_paths) THEN [ok |-> TRUE, paths |-> absolute_paths]
    ELSE IF ~in_path(test_paths[i]).ok THEN [ok |-> FALSE, paths |-> <<>>]
    ELSE absolute_paths_in(test_paths, i + 1,
                           absolute_paths \o in_path(test_paths[i]).paths)

\* The second loop of with_config: a TestFilePath for every absolute path.
TestFilePaths(absolute_paths, test_paths) ==
    [ i \in 1..Len(absolute_paths) |->
        [absolute |-> absolute_paths[i],
         relative |-> compute(absolute_paths[i], test_paths).relative_path[1]] ]

\* find_files::with_config.
with_config(test_paths) ==
    IF ~absolute_paths_in(test_paths, 1, <<>>).ok
    THEN [status |-> "Err", test_paths |-> <<>>]
    ELSE IF \E i \in 1..Len(absolute_paths_in(test_paths, 1, <<>>).paths) :
               \/ compute(absolute_paths_in(test_paths, 1, <<>>).paths[i], test_paths).panicked
               \/ compute(absolute_paths_in(test_paths, 1, <<>>).paths[i], test_paths).relative_path = <<>>
    THEN [status |-> "panicked", test_paths |-> <<>>]
    ELSE [status |-> "Ok",
          test_paths |-> TestFilePaths(absolute_paths_in(test_paths, 1, <<>>).paths, test_paths)]

\* The configurations: up to MaxTestPaths test paths.
TestPathConfigs ==
    UNION { [1..n -> ConfiguredPaths] : n \in 0..MaxTestPaths }

FindInit ==
    /\ debug_assertions \in BOOLEAN
    /\ test_run_state = TestRunState_new(EmptyMap)
    /\ last = Call("new", <<>>, TestRunState_new(EmptyMap), NoResult)
    /\ panicked = FALSE
    /\ SuiteIdle
    /\ ParserIdle
    /\ find_pc \in {"tests", "compute"}
    /\ config_test_paths \in TestPathConfigs
    /\ found_test_paths = <<>>
    /\ finished_test_paths = <<>>
    /\ computed = NotComputed

\* run::tests from the check of the test paths to its loop, for what
\* with_config returned.
TestsAfterDiscovery(found) ==
    /\ find_pc' = IF config_test_paths = <<>> \/ found.status = "Err" THEN "aborted"
                  ELSE IF found.status = "panicked" THEN "panicked"
                  ELSE IF found.test_paths = <<>> THEN "returned"
                  ELSE "loop"
    /\ found_test_paths' = IF config_test_paths = <<>> THEN <<>> ELSE found.test_paths

\* run::tests up to its loop: without test paths, or when with_config
\* fails, the process is aborted; without test files Err is returned.
FindTests ==
    /\ find_pc = "tests"
    /\ TestsAfterDiscovery(with_config(config_test_paths))
    /\ UNCHANGED <<config_test_paths, finished_test_paths, computed>>
    /\ UNCHANGED evalVars
    /\ UNCHANGED suiteVars
    /\ UNCHANGED parseVars

\* One turn of the loop of run::tests: the next test file is parsed,
\* which panics when the file does not parse, then run by single_file,
\* which gives the TestResult of the path to on_test_finished.
RunFoundTest(parses) ==
    /\ find_pc = "loop"
    /\ found_test_paths # <<>>
    /\ IF parses
       THEN /\ finished_test_paths' = Append(finished_test_paths, Head(found_test_paths))
            /\ found_test_paths' = Tail(found_test_paths)
            /\ UNCHANGED find_pc
       ELSE /\ find_pc' = "panicked"
            /\ UNCHANGED <<found_test_paths, finished_test_paths>>
    /\ UNCHANGED <<config_test_paths, computed>>
    /\ UNCHANGED evalVars
    /\ UNCHANGED suiteVars
    /\ UNCHANGED parseVars

\* The end of the loop of run::tests.
FoundTestsFinished ==
    /\ find_pc = "loop"
    /\ found_test_paths = <<>>
    /\ find_pc' = "returned"
    /\ UNCHANGED <<config_test_paths, found_test_paths, finished_test_paths, computed>>
    /\ UNCHANGED evalVars
    /\ UNCHANGED suiteVars
    /\ UNCHANGED parseVars

\* relative_path::compute called for any file, as its tests call it.
ComputeRelativePath(test_absolute_path) ==
    /\ find_pc = "compute"
    /\ computed' = [called |-> TRUE,
                    test_absolute_path |-> test_absolute_path,
                    relative_path |-> compute(test_absolute_path, config_test_paths).relative_path]
    /\ find_pc' = "computed"
    /\ UNCHANGED <<config_test_paths, found_test_paths, finished_test_paths>>
    /\ UNCHANGED evalVars
    /\ UNCHANGED suiteVars
    /\ UNCHANGED parseVars

FindNext ==
    \/ FindTests
    \/ \E parses \in BOOLEAN : RunFoundTest(parses)
    \/ FoundTestsFinished
    \/ \E i \in 1..Len(DiskFiles) : ComputeRelativePath(DiskFiles[i])

SpecFind == FindInit /\ [][FindNext]_vars

\* ------------------------------------------------------------------------
\* Properties of the evaluator state, checked under SpecEval.
\* ------------------------------------------------------------------------

\* The last call was a check or a check_next.
LastIsCheck == last.op \in {"check", "check_next"}

\* The last call returned Fail { reason: CheckFailed(..) }.
LastCheckFailed ==
    /\ LastIsCheck
    /\ last.result.kind = "Fail"
    /\ last.result.reason.type = "CheckFailed"

\* C1: a check or check_next call that returns a CheckFailed failure does
\* not advance the cursor: the cursor, and so the unprocessed output
\* stream, is the same before and after the failing call.
C1_FailedCheckKeepsCursor ==
    LastCheckFailed =>
        /\ test_run_state.current_stream_byte_position
              = last.pre.current_stream_byte_position
        /\ unprocessed_output_stream(test_run_state)
              = unprocessed_output_stream(last.pre)

\* The state before the last call once its leading whitespace is eaten.
LastEaten == eat_whitespace(last.pre)

\* The match the last call searched for, in the stream left after the
\* leading whitespace.
LastMatch == next_unprocessed_byte_index_of(LastEaten, last.pattern)

\* check(p) on the state before the last call would succeed.
LastCheckWouldPass == check(last.pre, last.pattern, debug_assertions).result.kind = "Pass"

\* C2 as stated: check_next(p) succeeds iff check(p) on the same state
\* would succeed and, whenever the unprocessed slice of that state holds a
\* "\n", the match starts strictly before the first "\n" of that slice.
C2_CheckNextIffCheckBeforeNewlineOfState ==
    last.op = "check_next" =>
        LET slice == unprocessed_output_stream(last.pre)
            first_new_line == FindNewline(slice) - 1
            match_start == (LastEaten.current_stream_byte_position
                               - last.pre.current_stream_byte_position) + LastMatch.start
        IN (last.result.kind = "Pass")
              <=> /\ LastCheckWouldPass
                  /\ FindNewline(slice) # 0 => match_start < first_new_line

\* C2, amended: check_next(p) succeeds iff check(p) on the same state would
\* succeed and, whenever the unprocessed slice left after the leading
\* whitespace has been skipped holds a "\n", the match starts strictly
\* before the first "\n" of that slice.
C2_CheckNextIffCheckBeforeNewlineAfterWhitespace ==
    last.op = "check_next" =>
        LET slice == unprocessed_output_stream(LastEaten)
            first_new_line == FindNewline(slice) - 1
        IN (last.result.kind = "Pass")
              <=> /\ LastCheckWouldPass
                  /\ FindNewline(slice) # 0 => LastMatch.start < first_new_line

\* A check_next was rejected although check would have matched, the match
\* being on a later line.
C2_Witness_Rejected ==
    /\ last.op = "check_next"
    /\ last.result.kind = "Fail"
    /\ LastCheckWouldPass
    /\ FindNewline(unprocessed_output_stream(LastEaten)) # 0

\* The captures of the match of the last call, taken where it matched in
\* the output.
LastCapturesInOutput ==
    Find(text_pattern(last.pattern, LastEaten.variables).regex,
         unprocessed_output_stream(LastEaten)).caps

\* C3: when a check or check_next succeeds with a pattern holding a named
\* regex [[X:r]], the live variable X holds exactly the text that group
\* captured, a later $$X resolves to it, and no call removes a variable or
\* changes one its pattern does not capture.
C3_CaptureIsLiveVariable ==
    LastIsCheck =>
        /\ last.result.kind = "Pass" =>
              \A i \in 1..Len(last.pattern) :
                 last.pattern[i].type = "NamedRegex" =>
                    LET X == last.pattern[i].name
                    IN /\ X \in DOMAIN test_run_state.variables
                       /\ test_run_state.variables[X] = LastCapturesInOutput[X]
                       /\ lookup_variable(X, test_run_state.variables).value
                             = LastCapturesInOutput[X]
        /\ \A n \in DOMAIN last.pre.variables :
              /\ n \in DOMAIN test_run_state.variables
              /\ test_run_state.variables[n] # last.pre.variables[n] =>
                    \E i \in 1..Len(last.pattern) :
                       last.pattern[i].type = "NamedRegex" /\ last.pattern[i].name = n

\* ------------------------------------------------------------------------
\* Properties of the orchestration and of the suite driver, checked under
\* Spec.
\* ------------------------------------------------------------------------

\* Invocation, command line, output and result of the RUN started last.
RunStartedLast ==
    IF pc = "run_test_checks" THEN current_run ELSE test_results[Len(test_results)]

\* The evaluator state is the one a RUN of the current file started with.
RunJustStarted ==
    /\ last.op = "spawn"
    /\ \/ pc = "run_test_checks"
       \/ pc = "execute_tests" /\ Len(test_results) > 0

\* The names of the configured constants and of the test-file variables.
SeededNames == (DOMAIN ConfigConstants) \cup (DOMAIN TestFile_variables(test_file))

\* C4: the evaluator state of each RUN starts with cursor 0, only that
\* RUN's output, and variables equal to the configured constants overlaid
\* with the test-file variables; no capture of an earlier RUN is in them.
C4_RunStartsFresh ==
    RunJustStarted =>
        /\ test_run_state.current_stream_byte_position = 0
        /\ test_run_state.complete_output_stream = RunStartedLast.program_output.stdout
        /\ DOMAIN test_run_state.variables = SeededNames
        /\ \A n \in SeededNames :
              test_run_state.variables[n] =
                 IF n \in DOMAIN TestFile_variables(test_file)
                 THEN TestFile_variables(test_file)[n]
                 ELSE ConfigConstants[n]
        /\ \A n \in DOMAIN last.pre.variables :
              n \notin SeededNames => n \notin DOMAIN test_run_state.variables

\* A later RUN of a file starts after an earlier RUN of it captured X, and
\* a constant is shadowed by a test-file variable.
C4_Witness_SecondRunAfterCapture ==
    /\ RunJustStarted
    /\ Len(test_results) >= 1
    /\ "X" \in DOMAIN last.pre.variables
    /\ "X" \notin DOMAIN test_run_state.variables
    /\ test_run_state.variables["file"] # ConfigConstants["file"]

\* The test file holds an XFAIL command.
HasXFail == \E i \in 1..Len(test_file) : test_file[i].kind = "XFail"

\* C5: when a test file holds an XFail command and a RUN of it exits
\* successfully with every CHECK and CHECK-NEXT matching, the result of
\* that RUN is UnexpectedPass.
C5_XFailPassIsUnexpectedPass ==
    \A i \in 1..Len(test_results) :
        (HasXFail /\ raw_results[i].kind = "Pass") =>
            test_results[i].result.kind = "UnexpectedPass"

\* C6: for a test file with XFAIL, one RUN whose process exits 0 and a
\* CHECK whose pattern does not occur in the output, the overall result
\* given to on_test_finished is ExpectedFailure.
C6_XFailCheckFailureIsExpectedFailure ==
    ( /\ result.delivered
      /\ HasXFail
      /\ Len(raw_results) = 1
      /\ raw_results[1].kind = "Fail"
      /\ raw_results[1].reason.type = "CheckFailed" )
    => result.overall_result.kind = "ExpectedFailure"

\* C7: when a test file holds an XFail command and a RUN's process exits
\* non-zero or the shell cannot be launched, the result of that RUN is
\* ExpectedFailure.
C7_XFailExecutionFailureIsExpectedFailure ==
    \A i \in 1..Len(test_results) :
        ( /\ HasXFail
          /\ \/ raw_results[i].kind = "Error"
             \/ /\ raw_results[i].kind = "Fail"
                /\ raw_results[i].reason.type = "UnsuccessfulExecution" )
        => test_results[i].result.kind = "ExpectedFailure"

\* C8: a test file without any Run command has the overall result Skip,
\* whatever other commands it holds.
C8_NoRunIsSkip ==
    ( /\ result.delivered
      /\ \A i \in 1..Len(test_file) : test_file[i].kind # "Run" )
    => result.overall_result.kind = "Skip"

\* The kinds of result that are erroneous.
ErroneousKinds == {"UnexpectedPass", "Error", "Fail"}

\* The indexes of the erroneous per-RUN results of the delivered TestResult.
ErroneousRuns ==
    { i \in 1..Len(result.individual_run_results) :
        result.individual_run_results[i].result.kind \in ErroneousKinds }

\* C9: the overall result of a test file is the first per-RUN result, in
\* RUN order, that is UnexpectedPass, Error or Fail; without one it is Pass.
C9_OverallIsFirstErroneous ==
    result.delivered =>
        IF ErroneousRuns = {}
        THEN result.overall_result = Pass
        ELSE \E i \in ErroneousRuns :
                /\ \A j \in ErroneousRuns : i <= j
                /\ result.overall_result = result.individual_run_results[i].result

\* A file was delivered whose first RUN was not erroneous and whose second
\* RUN, an erroneous one, is the overall result.
C9_Witness_LaterRunErroneous ==
    /\ result.delivered
    /\ Len(result.individual_run_results) >= 2
    /\ 1 \notin ErroneousRuns
    /\ 2 \in ErroneousRuns
    /\ result.overall_result = result.individual_run_results[2].result

\* No on_test_finished so far carried an erroneous overall result.
NoErroneousFile ==
    \A i \in 1..Len(events) :
        events[i].ev = "on_test_finished" => events[i].kind \notin ErroneousKinds

RunCount == Len(run_command_invocations(test_file))

LastPatternUncompilable ==
    /\ LastIsCheck
    /\ text_pattern(last.pattern, last.pre.variables).status \in {"missing", "invalid"}

\* C15: a check or check_next whose pattern names a variable or constant
\* absent from the variable store, or compiles to an invalid regex, ends
\* with an Error{message} result; it does not panic, which would abort the
\* suite, and it does not substitute an empty value.
C15_UncompilablePatternIsError ==
    LastPatternUncompilable =>
        /\ last.result.kind = "Error"
        /\ ~panicked

\* The text of the unprocessed stream the last call matched.
LastMatchedText ==
    SubSeq(unprocessed_output_stream(LastEaten), LastMatch.start + 1, LastMatch.end)

\* The last call was a check or check_next of the pattern $$X with X
\* defined, and it passed.
LastVariableCheckPassed ==
    /\ LastIsCheck
    /\ last.pattern = <<Variable("X")>>
    /\ "X" \in DOMAIN last.pre.variables
    /\ last.result.kind = "Pass"

\* C16: the resolved value of a Variable or Constant component is inserted
\* regex-escaped: a passing check of $$X has matched exactly the value of
\* X, whatever regex metacharacters the value holds.
C16_VariableValueMatchesLiterally ==
    LastVariableCheckPassed => LastMatchedText = last.pre.variables["X"]

\* ------------------------------------------------------------------------
\* The output stream of a RUN.
\* ------------------------------------------------------------------------

\* Position i of s lies in trailing whitespace of its line: from i to the
\* end of the line, s holds whitespace only.
InTrailingWhitespace(s, i) ==
    /\ s[i] # "\n"
    /\ \A j \in i..Len(s) :
          (\A k \in i..j : s[k] # "\n") => is_whitespace(s[j])

\* s from position i on, with every line right-trimmed of whitespace and
\* the lines joined with "\n" as they were.
RECURSIVE TrimLinesFrom(_, _)
TrimLinesFrom(s, i) ==
    IF i > Len(s) THEN <<>>
    ELSE IF InTrailingWhitespace(s, i) THEN TrimLinesFrom(s, i + 1)
    ELSE <<s[i]>> \o TrimLinesFrom(s, i + 1)

\* C17: the output stream check and check_next match against is the stdout
\* of the program with every line right-trimmed of whitespace and the
\* lines rejoined with "\n"; what the program wrote to stderr is no part
\* of it.
C17_OutputStreamIsTrimmedStdout ==
    pc \in {"run_test_checks", "checks_done"} =>
        test_run_state.complete_output_stream
            = TrimLinesFrom(current_run.outcome.stdout, 1)

\* ------------------------------------------------------------------------
\* Temporary files.
\* ------------------------------------------------------------------------

\* C18: with cleanup_temporary_files set, the files named by variables
\* whose name contains "tempfile" are removed only after the command walk
\* of a RUN has completed successfully: while the walk is going on nothing
\* is removed, and in a RUN where a Check or CheckNext failed no tempfile
\* is removed.
C18_TempfilesRemovedOnlyAfterSuccess ==
    cleanup_temporary_files =>
        /\ pc = "run_test_checks" => removed_tempfiles = {}
        /\ (pc = "checks_done" /\ is_erroneous(check_result)) => removed_tempfiles = {}

\* ------------------------------------------------------------------------
\* The round trip of text patterns.
\* ------------------------------------------------------------------------

\* C19: for every input string s, with p = parse::text_pattern(s), parsing
\* the Display rendering of p again yields a TextPattern equal to p: the
\* first parse returns, and once its rendering has been parsed the two
\* patterns are equal.
C19_DisplayThenParseIsIdentity ==
    /\ parse_pc = "panicked" => FALSE
    /\ parse_pc = "reparsed" => pattern_reparsed = pattern_parsed

\* ------------------------------------------------------------------------
\* The commands of a parsed test file.
\* ------------------------------------------------------------------------

\* The kind of command each directive word stands for.
KindOfDirective ==
    [w \in {"RUN", "CHECK", "CHECK-NEXT", "XFAIL"} |->
        CASE w = "RUN" -> "Run"
          [] w = "CHECK" -> "Check"
          [] w = "CHECK-NEXT" -> "CheckNext"
          [] OTHER -> "XFail"]

\* Position q of the text holds the directive of its line: a run of A-Z
\* and `-` with a colon behind it, and none before it in the same line.
IsDirectiveAt(body, q) ==
    /\ q < Len(body)
    /\ is_directive_run(body[q])
    /\ body[q + 1] = ":"
    /\ \A j \in 1..(q - 1) :
          (is_directive_run(body[j]) /\ body[j + 1] = ":")
             => \E k \in j..q : body[k] = "\n"

\* The positions of the directives of the text, in ascending order.
RECURSIVE DirectivesFrom(_, _)
DirectivesFrom(body, q) ==
    IF q > Len(body) THEN <<>>
    ELSE IF IsDirectiveAt(body, q) THEN <<q>> \o DirectivesFrom(body, q + 1)
    ELSE DirectivesFrom(body, q + 1)

\* The 1-based number of the line position q of the text lies in.
LineOf(body, q) == 1 + Cardinality({ j \in 1..(q - 1) : body[j] = "\n" })

\* C20: for every successfully parsed test file, the commands appear in
\* the order of their source lines, one command per directive line, and
\* the line_number of each command is the 1-based number of the line it
\* came from.
C20_CommandsInLineOrder ==
    parse_result.status = "Ok" =>
        LET directives == DirectivesFrom(test_body, 1)
        IN /\ Len(parse_result.commands) = Len(directives)
           /\ \A k \in 1..Len(directives) :
                 /\ parse_result.commands[k].line_number = LineOf(test_body, directives[k])
                 /\ parse_result.commands[k].kind
                       = KindOfDirective[test_body[directives[k]]]
           /\ \A k \in 1..(Len(directives) - 1) :
                 parse_result.commands[k].line_number
                    < parse_result.commands[k + 1].line_number

\* A file of three lines was parsed whose first line holds no directive and
\* whose other lines hold one each.
C20_Witness_DirectivesAfterPlainLine ==
    /\ parse_result.status = "Ok"
    /\ Len(parse_result.commands) = 2
    /\ parse_result.commands[1].line_number = 2
    /\ parse_result.commands[2].line_number = 3
    /\ parse_result.commands[1].kind = "Run"
    /\ parse_result.commands[1].invocation = <<"r", " ", "@", "c", "c">>

\* ------------------------------------------------------------------------
\* Failing executions.
\* ------------------------------------------------------------------------

\* The process of the run record r was launched and exited with a
\* non-zero status.
ExitedNonZero(r) == r.outcome.launched /\ r.outcome.status # 0

\* C13: when the process of a RUN exits with a non-zero status, the result
\* of that RUN is Fail{UnsuccessfulExecution} with hint None, carrying the
\* command line with its constants resolved and the exit status, and no
\* Check or CheckNext is evaluated for that RUN: its commands are never
\* walked, so every evaluated check belongs to a RUN that exited with 0.
C13_NonZeroExitIsUnsuccessfulExecution ==
    /\ \A i \in 1..Len(test_results) :
          ExitedNonZero(test_results[i]) =>
             /\ raw_results[i] =
                   Fail(UnsuccessfulExecution(<<"r", " ", "x">>,
                                              test_results[i].outcome.status), NoHint)
             /\ raw_results[i].reason.program_command_line
                   = build_command(test_results[i].invocation, test_file)
             /\ test_results[i].result = raw_results[i]
    /\ ~ExitedNonZero(current_run)
    /\ (RunJustStarted /\ last.result.kind = "Fail") =>
          /\ pc = "execute_tests"
          /\ ExitedNonZero(test_results[Len(test_results)])
          /\ test_run_state.current_stream_byte_position = 0
    /\ pc \in {"run_test_checks", "checks_done"} =>
          /\ current_run.outcome.launched
          /\ current_run.outcome.status = 0
    /\ LastIsCheck =>
          LET r == IF current_run # NoRun THEN current_run
                   ELSE test_results[Len(test_results)]
          IN r.outcome.launched /\ r.outcome.status = 0

\* A RUN that exited with status 1 has its result, in a file that holds a
\* check, and the next RUN of the file has been started.
C13_Witness_FailedRunThenNextRun ==
    /\ Len(test_results) >= 1
    /\ ExitedNonZero(test_results[1])
    /\ \E i \in 1..Len(test_file) : test_file[i].kind \in {"Check", "CheckNext"}
    /\ pc = "run_test_checks"

\* The launch of the shell of the run record r failed with the io::ErrorKind
\* kind.
LaunchFailed(r, kind) ==
    /\ r.invocation # <<>>
    /\ ~r.outcome.launched
    /\ r.outcome.error = kind

\* C14: when launching the configured shell fails with NotFound, the result
\* of the RUN is Error with the message "shell 'bash' does not exist" (bash
\* being config.shell), the program output is empty and no check is
\* evaluated; any other launch error gives Error with the text of that
\* error.
C14_LaunchFailureIsError ==
    /\ \A i \in 1..Len(test_results) :
          /\ LaunchFailed(test_results[i], "NotFound") =>
                raw_results[i] = Error("shell 'bash' does not exist")
          /\ LaunchFailed(test_results[i], "PermissionDenied") =>
                raw_results[i] = Error("Permission denied (os error 13)")
          /\ ~test_results[i].outcome.launched =>
                /\ test_results[i].result = raw_results[i]
                /\ test_results[i].program_output = ProgramOutput(<<>>, <<>>)
    /\ (RunJustStarted /\ last.result.kind = "Error") =>
          /\ pc = "execute_tests"
          /\ ~test_results[Len(test_results)].outcome.launched
          /\ test_run_state.complete_output_stream = <<>>
          /\ test_run_state.complete_stderr = <<>>
          /\ test_run_state.current_stream_byte_position = 0
    /\ current_run # NoRun => current_run.outcome.launched
    /\ (LastIsCheck /\ current_run = NoRun) =>
          test_results[Len(test_results)].outcome.launched

\* Both kinds of launch failure have happened in one file that holds a
\* check.
C14_Witness_BothLaunchFailures ==
    /\ Len(test_results) = 2
    /\ LaunchFailed(test_results[1], "NotFound")
    /\ LaunchFailed(test_results[2], "PermissionDenied")
    /\ \E i \in 1..Len(test_file) : test_file[i].kind \in {"Check", "CheckNext"}

\* ------------------------------------------------------------------------
\* Test files that cannot be parsed.
\* ------------------------------------------------------------------------

\* util::parse_test has failed on the file run::tests was at.
ParseFailed == pc \in {"aborted", "parse_test_panicked"}

\* C12: a test file that cannot be read or that holds a malformed directive
\* is reported as an Error result for that file only: once its parse has
\* failed, the event handler has received on_test_finished with an Error
\* for that file, and run::tests is still in its loop, on its way to the
\* remaining files and to on_test_suite_finished.
C12_ParseFailureIsErrorOfThatFile ==
    ParseFailed =>
        /\ events[Len(events)].ev = "on_test_finished"
        /\ events[Len(events)].count = next_path(number_of_test_files, remaining)
        /\ events[Len(events)].kind = "Error"
        /\ ~panicked

\* ------------------------------------------------------------------------
\* The invocation of a RUN.
\* ------------------------------------------------------------------------

\* The text behind the colon of the directive at position q, up to the end
\* of its line.
TextAfterDirective(body, q) ==
    SubSeq(body, q + 2,
           IF FindNewline(SliceFrom(body, q)) = 0 THEN Len(body)
           ELSE q + FindNewline(SliceFrom(body, q)) - 2)

\* C21: the original_command of the Invocation of a RUN directive is the
\* trimmed text after `RUN:`, character for character, runs of whitespace
\* inside it included.
C21_InvocationIsVerbatim ==
    parse_result.status = "Ok" =>
        \A k \in 1..Len(parse_result.commands) :
            parse_result.commands[k].kind = "Run" =>
                parse_result.commands[k].invocation
                    = trim(TextAfterDirective(test_body,
                                              DirectivesFrom(test_body, 1)[k]))

\* ------------------------------------------------------------------------
\* The cursor of the evaluator, checked under SpecEval.
\* ------------------------------------------------------------------------

\* The cursor: current_stream_byte_position of the state.
Cursor == test_run_state.current_stream_byte_position

\* C22: after any sequence of append_program_output, check and check_next
\* calls, the cursor is at least 0 and at most the byte length of the
\* complete output stream.
C22_CursorWithinOutput ==
    /\ 0 <= Cursor
    /\ Cursor <= Len(test_run_state.complete_output_stream)

\* A check has passed and left the cursor inside the output, behind a line
\* it consumed and before a line that is left.
C22_Witness_CursorInsideOutput ==
    /\ LastIsCheck
    /\ last.result.kind = "Pass"
    /\ 0 < Cursor
    /\ Cursor < Len(test_run_state.complete_output_stream)

\* Byte index idx of the byte string s is a code-point boundary: no
\* continuation byte sits there.
IsCodePointBoundary(s, idx) ==
    idx < Len(s) => s[idx + 1] \notin {ContByte, WhitespaceContByte}

\* The number of bytes of the whitespace characters s starts with: the
\* bytes before its first byte that belongs to no whitespace character.
WhitespacePrefixBytes(s) ==
    LET ws == {" ", "\n", WhitespaceLeadByte, WhitespaceContByte}
    IN IF \A i \in 1..Len(s) : s[i] \in ws THEN Len(s)
       ELSE (CHOOSE i \in 1..Len(s) : s[i] \notin ws /\ \A j \in 1..(i - 1) : s[j] \in ws) - 1

\* C23: on output holding multi-byte characters the cursor always sits on
\* a code-point boundary, and a check or check_next advances it by the byte
\* length, not the character count, of the whitespace it skips and of the
\* text it matches.
C23_CursorOnCodePointBoundary ==
    /\ IsCodePointBoundary(test_run_state.complete_output_stream, Cursor)
    /\ (LastIsCheck /\ ~panicked) =>
          LET skipped == WhitespacePrefixBytes(unprocessed_output_stream(last.pre))
          IN /\ LastEaten.current_stream_byte_position
                   = last.pre.current_stream_byte_position + skipped
             /\ last.result.kind = "Fail" =>
                   Cursor = last.pre.current_stream_byte_position + skipped
             /\ last.result.kind = "Pass" =>
                   Cursor >= last.pre.current_stream_byte_position + skipped
                                + LastMatch.end

\* A check has passed that skipped the two-byte whitespace character and
\* matched the two-byte word character behind it.
C23_Witness_SkippedAndMatchedTwoBytes ==
    /\ LastIsCheck
    /\ last.result.kind = "Pass"
    /\ last.pre.current_stream_byte_position = 0
    /\ last.pre.complete_output_stream
          = <<WhitespaceLeadByte, WhitespaceContByte, LeadByte, ContByte, "\n">>
    /\ Cursor = 5

\* ------------------------------------------------------------------------
\* References to constants.
\* ------------------------------------------------------------------------

\* The names of the Constant components of pattern_parsed, in order.
RECURSIVE ConstantComponentNames(_, _)
ConstantComponentNames(components, i) ==
    IF i > Len(components) THEN <<>>
    ELSE IF components[i].type = "Constant"
    THEN <<components[i].name>> \o ConstantComponentNames(components, i + 1)
    ELSE ConstantComponentNames(components, i + 1)

\* C24: for every constant name N, the reference @N is recognised as the
\* constant N both in the tail of a RUN and in the pattern of a CHECK or
\* CHECK-NEXT: the name taken after `@` is N in the two contexts, names
\* with digits or underscores included.
C24_ConstantNameSameInBothContexts ==
    parse_pc = "resolved" =>
        /\ ~pattern_parsed.panicked
        /\ ConstantComponentNames(pattern_parsed.components, 1) = <<Tail(pattern_source)>>
        /\ constant_spans = <<Tail(pattern_source)>>

\* C25: across any sequence of check and check_next calls on one
\* TestRunState, the cursor never decreases.
C25_CursorNeverDecreases ==
    [][test_run_state'.current_stream_byte_position >= Cursor]_vars

\* A check that moved a cursor an earlier check had moved already.
C25_Witness_CursorMovedTwice ==
    /\ LastIsCheck
    /\ last.pre.current_stream_byte_position > 0
    /\ Cursor > last.pre.current_stream_byte_position

\* ------------------------------------------------------------------------
\* Lines consumed by a successful check.
\* ------------------------------------------------------------------------

\* The cursor right after the match of the last call.
MatchEndCursor == LastEaten.current_stream_byte_position + LastMatch.end

\* The cursor after the first "\n" of s at or after cursor p; the end of s
\* when there is none.
LineEndAfter(s, p) ==
    IF FindNewline(SliceFrom(s, p + 1)) = 0 THEN Len(s)
    ELSE p + FindNewline(SliceFrom(s, p + 1))

\* The last call was a check or check_next that returned Pass.
LastCheckPassed == LastIsCheck /\ ~panicked /\ last.result.kind = "Pass"

\* C26: after every successful check or check_next the rest of the line
\* holding the end of the match is consumed: the cursor is at the end of
\* the output or right after a "\n", the first one from the end of the
\* match on.
C26_RestOfLineConsumed ==
    LastCheckPassed =>
        /\ \/ Cursor = Len(test_run_state.complete_output_stream)
           \/ /\ Cursor > 0
              /\ test_run_state.complete_output_stream[Cursor] = "\n"
        /\ Cursor = LineEndAfter(test_run_state.complete_output_stream, MatchEndCursor)

\* A successful check that dropped text between the end of its match and
\* the line break, with output left on the next line.
C26_Witness_RestOfLineDropped ==
    /\ LastCheckPassed
    /\ MatchEndCursor < Cursor - 1
    /\ Cursor < Len(test_run_state.complete_output_stream)

\* The cursor at the start of the match of the last call.
MatchStartCursor == LastEaten.current_stream_byte_position + LastMatch.start

\* C27: a successful check_next consumes exactly one line: afterwards the
\* cursor is at the start of the line after the one on which the match
\* started, or at the end of the output when that line was the last, never
\* further.
C27_CheckNextConsumesOneLine ==
    (LastCheckPassed /\ last.op = "check_next") =>
        Cursor = LineEndAfter(test_run_state.complete_output_stream, MatchStartCursor)

\* C27 for the matches that end before the line break of their line.
C27_OneLineWhenMatchEndsOnItsLine ==
    (/\ LastCheckPassed
     /\ last.op = "check_next"
     /\ MatchEndCursor < LineEndAfter(test_run_state.complete_output_stream, MatchStartCursor))
        => Cursor = LineEndAfter(test_run_state.complete_output_stream, MatchStartCursor)

\* ------------------------------------------------------------------------
\* Failures of check and check_next.
\* ------------------------------------------------------------------------

\* The regex of the pattern of the last call.
LastRegex == text_pattern(last.pattern, LastEaten.variables)

\* The pattern of the last call matches at some character of the
\* unprocessed slice from position s on.
LastPatternMatchesFrom(s) ==
    /\ LastRegex.status = "ok"
    /\ \E q \in s..(Len(unprocessed_output_stream(LastEaten)) + 1) :
          /\ IsCodePointBoundary(unprocessed_output_stream(LastEaten), q - 1)
          /\ MatchFrom(LastRegex.regex, 1, unprocessed_output_stream(LastEaten), q,
                       <<>>, EmptyMap).ok

\* The pattern of the last call matches somewhere at or beyond the first
\* newline of the unprocessed slice.
LastPatternMatchesBeyondFirstNewline ==
    /\ FindNewline(unprocessed_output_stream(LastEaten)) # 0
    /\ LastPatternMatchesFrom(FindNewline(unprocessed_output_stream(LastEaten)))

\* The last call returned Fail.
LastFailed == LastIsCheck /\ ~panicked /\ last.result.kind = "Fail"

C29_CheckFailureInfoSplitsOutput ==
    (LastCheckFailed /\ ~panicked) =>
        /\ last.result.reason.complete_output_text = test_run_state.complete_output_stream
        /\ last.result.reason.successfully_checked_until_byte_index = Cursor
        /\ last.result.reason.successfully_checked_until_byte_index
              = LastEaten.current_stream_byte_position
        /\ last.result.reason.expected_pattern = last.pattern
        /\ IsCodePointBoundary(last.result.reason.complete_output_text,
                               last.result.reason.successfully_checked_until_byte_index)
        /\ successfully_checked_text(last.result.reason) \o remaining_text(last.result.reason)
              = test_run_state.complete_output_stream

\* A CheckFailed whose index is inside the output: text checked before it,
\* text remaining after it.
C29_Witness_FailedInsideOutput ==
    /\ LastCheckFailed
    /\ ~panicked
    /\ successfully_checked_text(last.result.reason) # <<>>
    /\ remaining_text(last.result.reason) # <<>>

\* ------------------------------------------------------------------------
\* Unknown directives.
\* ------------------------------------------------------------------------

\* The positions of the directives of the text whose word is no command.
UnknownDirectives(body) ==
    { q \in 1..Len(body) : IsDirectiveAt(body, q) /\ body[q] \notin DOMAIN KindOfDirective }

\* The word of the first directive of the text that is no command.
FirstUnknownKeyword(body) ==
    body[CHOOSE q \in UnknownDirectives(body) : \A r \in UnknownDirectives(body) : q <= r]

IsReferenceAt(cmd, p) ==
    /\ cmd[p] = "@"
    /\ p < Len(cmd)
    /\ cmd[p + 1] \in ConstantNameChars

\* Position q of cmd lies in the name of the reference at position p.
InNameOf(cmd, p, q) ==
    /\ p < q
    /\ \A r \in (p + 1)..q : cmd[r] \in ConstantNameChars

\* The name of the reference at position p of cmd.
NameOfReference(cmd, p) ==
    SubSeq(cmd, p + 1,
           CHOOSE q \in (p + 1)..Len(cmd) :
               /\ InNameOf(cmd, p, q)
               /\ q < Len(cmd) => cmd[q + 1] \notin ConstantNameChars)

\* What position p of cmd gives to the command line: the value of its
\* reference, nothing inside a name, the character itself elsewhere.
ResolvedPiece(cmd, p) ==
    IF IsReferenceAt(cmd, p) THEN <<"<">> \o NameOfReference(cmd, p) \o <<">">>
    ELSE IF \E r \in 1..(p - 1) : IsReferenceAt(cmd, r) /\ InNameOf(cmd, r, p) THEN <<>>
    ELSE <<cmd[p]>>

\* The pieces of the positions p.. of cmd, in order.
RECURSIVE ResolvedPieces(_, _)
ResolvedPieces(cmd, p) ==
    IF p > Len(cmd) THEN <<>> ELSE ResolvedPiece(cmd, p) \o ResolvedPieces(cmd, p + 1)

\* C31: resolving an invocation replaces each occurrence of @name (name
\* matching [A-Za-z_]+) by the value of the variable and copies all other
\* text unchanged and in order; a command without @name resolves to
\* itself, and a lone or doubled `@` that no name character follows is
\* left as it is.
C31_InvocationResolved ==
    parse_pc = "resolved" =>
        /\ resolved_command_line = ResolvedPieces(pattern_source, 1)
        /\ (\A p \in 1..Len(pattern_source) : ~IsReferenceAt(pattern_source, p))
              => resolved_command_line = pattern_source

\* Resolved: a doubled `@` whose second one starts a reference, with text
\* behind the name.
C31_Witness_DoubledAtThenReference ==
    /\ parse_pc = "resolved"
    /\ pattern_source = <<"@", "@", "a", " ">>
    /\ resolved_command_line = <<"@", "<", "a", ">", " ">>

\* ------------------------------------------------------------------------
\* Captures, test-file variables and constants of one name.
\* ------------------------------------------------------------------------

\* The last call was a passing check or check_next of a pattern that ends
\* with the named group X, the text before the group being literal.
LastCapturedX ==
    /\ LastCheckPassed
    /\ last.pattern \in { <<NamedRegex("X", <<".">>)>>,
                          <<Text(<<"x">>), NamedRegex("X", <<".", "+">>)>> }

\* The text the group X of the last call matched: the matched text without
\* the literal text before the group.
LastCapturedText ==
    SubSeq(LastMatchedText, Len(last.pattern), Len(LastMatchedText))

\* The regex a pattern that is the value alone resolves to.
ValueAsRegex(value) == [i \in 1..Len(value) |-> Ch(value[i])]

\* C32: when a name is both a configured constant and a named capture made
\* by an earlier check of the same RUN, a later $$name or @name in a
\* pattern resolves to the captured value: the capture replaces the value
\* of the constant in the live variables, a later reference is searched
\* for as the value the live variables hold (it fails without a match
\* exactly when that value is nowhere in the unprocessed output), and the
\* test-file variable `file` shadows the constant of that name.
C32_CapturesShadowConstants ==
    /\ test_run_state.variables["file"] = TestFile_variables(<<>>)["file"]
    /\ LastCapturedX => test_run_state.variables["X"] = LastCapturedText
    /\ ( /\ LastIsCheck
         /\ ~panicked
         /\ last.pattern \in { <<Variable("X")>>, <<Constant("X")>> }
         /\ "X" \in DOMAIN last.pre.variables )
       => ( (last.result.kind = "Fail" /\ last.result.hint = NoHint)
              <=> ~Find(ValueAsRegex(last.pre.variables["X"]),
                        unprocessed_output_stream(LastEaten)).ok )

\* A check of $$X passed on the value y, which only a capture can have
\* given to X: the constants give it x or a dot.
C32_Witness_CapturedValueResolved ==
    /\ LastVariableCheckPassed
    /\ last.pre.variables["X"] = <<"y">>
    /\ LastMatchedText = <<"y">>

\* ------------------------------------------------------------------------
\* The empty pattern.
\* ------------------------------------------------------------------------

\* The last call was a check or check_next of a pattern without components
\* or of the empty text.
LastPatternEmpty ==
    /\ LastIsCheck
    /\ ~panicked
    /\ last.pattern \in { <<>>, <<Text(<<>>)>> }

\* C33 as stated: a pattern with no components, or only an empty Text,
\* always succeeds: it matches the empty string at the cursor and advances
\* the cursor past the current line, the line the cursor of the call was
\* in.
C33_EmptyPatternAdvancesPastLineOfCursor ==
    LastPatternEmpty =>
        /\ last.result.kind = "Pass"
        /\ MatchStartCursor = last.pre.current_stream_byte_position
        /\ MatchEndCursor = last.pre.current_stream_byte_position
        /\ Cursor = LineEndAfter(test_run_state.complete_output_stream,
                                 last.pre.current_stream_byte_position)

\* C33, amended: a pattern with no components, or only an empty Text,
\* always succeeds: it matches the empty string at the first character at
\* or after the cursor that is no whitespace (line breaks are whitespace),
\* and advances the cursor past the line of that character; to the end of
\* the output when only whitespace was left.
C33_EmptyPatternAdvancesPastLineAfterWhitespace ==
    LastPatternEmpty =>
        /\ last.result.kind = "Pass"
        /\ MatchStartCursor = MatchEndCursor
        /\ MatchStartCursor = last.pre.current_stream_byte_position
                                + WhitespacePrefixBytes(unprocessed_output_stream(last.pre))
        /\ Cursor = LineEndAfter(test_run_state.complete_output_stream, MatchStartCursor)

\* A check_next of the empty pattern passed over an empty line and the
\* line after it, with output left.
C33_Witness_EmptyPatternSkippedBlankLine ==
    /\ LastPatternEmpty
    /\ last.op = "check_next"
    /\ last.pre.current_stream_byte_position = 0
    /\ Len(last.pre.complete_output_stream) > 0
    /\ last.pre.complete_output_stream[1] = "\n"
    /\ Cursor > 2
    /\ Cursor < Len(test_run_state.complete_output_stream)

\* ------------------------------------------------------------------------
\* The order of the subprocesses.
\* ------------------------------------------------------------------------

\* The number of on_test_finished calls the event handler has received.
FinishedFiles ==
    Cardinality({ i \in 1..Len(events) : events[i].ev = "on_test_finished" })

\* C34: the suite driver is strictly sequential: at most one RUN
\* subprocess exists at any time; the subprocess of RUN k+1 of a file is
\* spawned only once the command walk of RUN k has finished and its result
\* is collected; and a RUN of a file is spawned only once on_test_finished
\* has been delivered for every file before it.  While a subprocess runs
\* the driver does nothing but wait for it.
C34_SuiteIsSequential ==
    [][ /\ running' \in {0, 1}
        /\ running' = 1 => pc' = "output"
        /\ running' > running =>
              /\ running = 0
              /\ current_run = NoRun
              /\ Len(test_results) = run_idx - 1
              /\ FinishedFiles = number_of_test_files - remaining ]_vars

\* The subprocess of the second RUN of the second file runs.
C34_Witness_SecondRunOfSecondFile ==
    /\ running = 1
    /\ Len(test_results) = 1
    /\ FinishedFiles = 1

\* ------------------------------------------------------------------------
\* The display-relative path.
\* ------------------------------------------------------------------------

\* The numbers of components of the configured test paths that are a
\* prefix of path.
PrefixLengths(path, test_paths) ==
    { Len(test_paths[i]) : i \in { j \in 1..Len(test_paths) : starts_with(path, test_paths[j]) } }

\* The least of a set of numbers.
Least(S) == CHOOSE m \in S : \A n \in S : m <= n

\* The number of leading components two paths share.
SharedLength(p, q) ==
    Least({ k \in 0..Len(p) : k = Len(p) \/ k >= Len(q) \/ p[k + 1] # q[k + 1] })

\* The number of components of the deepest ancestor of dir that is an
\* ancestor of every test path sharing a directory below the root with it.
CommonAncestorLength(dir, test_paths) ==
    Least({Len(dir)} \cup
          { SharedLength(dir, test_paths[i]) :
              i \in { j \in 1..Len(test_paths) : SharedLength(dir, test_paths[j]) >= 1 } })

\* path without its first n components.
Below(path, n) == SubSeq(path, n + 1, Len(path))

FallbackUsed ==
    /\ computed.called
    /\ PrefixLengths(computed.test_absolute_path, config_test_paths) = {}
    /\ computed.relative_path # <<>>

\* ------------------------------------------------------------------------
\* The test files of a suite run.
\* ------------------------------------------------------------------------

\* C40: each test file on disk is run and given to on_test_finished at
\* most once in a suite run, whatever the configured test paths are: no
\* two of the TestResults delivered have the same absolute path.
C40_EachFileFinishedOnce ==
    \A i, j \in 1..Len(finished_test_paths) :
        finished_test_paths[i].absolute = finished_test_paths[j].absolute => i = j

\* A supporting fact: with_config returns every file once for each
\* configured test path that yields it, so that the files are distinct
\* exactly when no file is below, or is, two of the configured paths.
FoundOncePerConfiguredPath ==
    find_pc = "loop" =>
        \A i \in 1..Len(DiskFiles) :
            Cardinality({ k \in 1..Len(finished_test_paths) :
                            finished_test_paths[k].absolute = DiskFiles[i] })
            + Cardinality({ k \in 1..Len(found_test_paths) :
                            found_test_paths[k].absolute = DiskFiles[i] })
            = Cardinality({ k \in 1..Len(config_test_paths) :
                            \E n \in 1..Len(in_path(config_test_paths[k]).paths) :
                                in_path(config_test_paths[k]).paths[n] = DiskFiles[i] })

\* ------------------------------------------------------------------------
\* The variables after a rejected CHECK-NEXT.
\* ------------------------------------------------------------------------

\* The last call was a check_next that failed with the hint of a match
\* that is not on the next line.
LastCheckNextRejected ==
    /\ last.op = "check_next"
    /\ last.result.kind = "Fail"
    /\ last.result.hint # NoHint

\* C36: a check_next that fails because its match lies beyond the first
\* newline leaves the live variables as they were before the call: the
\* named captures of the rejected match are neither added to the variable
\* map nor written over its entries.
C36_RejectedCheckNextKeepsVariables ==
    LastCheckNextRejected => test_run_state.variables = last.pre.variables

\* A supporting fact: nothing but the variables is changed by a rejected
\* check_next beyond the whitespace it ate, and the variables are those
\* before the call extended by the captures of the rejected match.
RejectedCheckNextExtendsVariables ==
    LastCheckNextRejected =>
        /\ test_run_state = [eat_whitespace(last.pre) EXCEPT !.variables = test_run_state.variables]
        /\ \A n \in DOMAIN last.pre.variables : n \in DOMAIN test_run_state.variables
        /\ \A n \in DOMAIN test_run_state.variables :
              \/ n \in capture_names(text_pattern(last.pattern, last.pre.variables).regex)
              \/ /\ n \in DOMAIN last.pre.variables
                 /\ test_run_state.variables[n] = last.pre.variables[n]

\* ------------------------------------------------------------------------
\* The totality of parse::text_pattern.
\* ------------------------------------------------------------------------

\* parse::text_pattern has been called on pattern_source.
TextPatternCalled == parse_pc \notin {"idle", "text_pattern", "invocation"} /\ pattern_parsed # NoPattern

\* The pattern returned accounts for every character of the source: its
\* Display, which writes each component in the surface syntax, is at least
\* as long as the source (longer only by the `]]` it adds to a regex the
\* source left open).
NoCharacterDropped ==
    Len(Display(pattern_parsed.components, 1)) >= Len(pattern_source)

\* C37: parse::text_pattern is total: for every input string, `$$` or
\* `@` followed by a non-alphanumeric character or by the end of the
\* input and an unterminated `[[` included, it returns a TextPattern
\* without panicking and without dropping the characters that follow the
\* reference.
C37_TextPatternIsTotal ==
    TextPatternCalled =>
        /\ ~pattern_parsed.panicked
        /\ NoCharacterDropped

\* A supporting fact: a source without `$`, `@` and multi-byte characters,
\* an unterminated `[[` included, is parsed without a panic and without a
\* dropped character.
TotalWithoutReferences ==
    (/\ TextPatternCalled
     /\ \A i \in 1..Len(pattern_source) : pattern_source[i] \notin {"$", "@", TwoByteChar})
        => /\ ~pattern_parsed.panicked
           /\ NoCharacterDropped

\* A supporting fact: in a build without overflow checks a reference
\* without a name does not panic, but drops everything behind it.
NamelessReferenceDropsRest ==
    (/\ TextPatternCalled
     /\ ~debug_assertions
     /\ Len(pattern_source) = 3
     /\ pattern_source[1] = "@"
     /\ pattern_source[2] = ":")
        => pattern_parsed = [panicked |-> FALSE,
                             components |-> <<Text(<<>>), Constant(<<>>), Text(<<>>)>>]

\* ------------------------------------------------------------------------
\* The RUN commands of a test file.
\* ------------------------------------------------------------------------

\* C38: every RUN command of a test file is executed and produces exactly
\* one entry in individual_run_results, in file order, even when an
\* earlier RUN of the same file ended in Fail or Error: the TestResult
\* given to on_test_finished holds as many entries as the file has RUN
\* commands, the k-th being that of the k-th RUN; and results are
\* collected one at a time, the k-th when k - 1 are there, for the k-th
\* RUN, after which the next RUN is turned to.
C38_EveryRunHasOneResultInOrder ==
    [][ /\ result'.delivered =>
              /\ Len(result'.individual_run_results) = Cardinality(RunLines(test_file'))
              /\ \A k \in 1..Len(result'.individual_run_results) :
                    /\ result'.individual_run_results[k].invocation
                          = test_file'[RunLine(test_file', k)].invocation
                    /\ result'.individual_run_results[k] = test_results'[k]
        /\ (test_results' # test_results /\ test_results' # <<>>) =>
              /\ Len(test_results) = run_idx - 1
              /\ run_idx <= Cardinality(RunLines(test_file))
              /\ test_results' = Append(test_results, test_results'[run_idx])
              /\ test_results'[run_idx].invocation
                    = test_file[RunLine(test_file, run_idx)].invocation
              /\ test_results'[run_idx].command_line
                    = build_command(test_file[RunLine(test_file, run_idx)].invocation, test_file)
              /\ run_idx' = run_idx + 1
              /\ test_file' = test_file ]_vars

\* A TestResult of three RUNs is delivered, the first of which ended in
\* Error and the second in Fail.
C38_Witness_RunsAfterErrorAndFail ==
    /\ result.delivered
    /\ Len(result.individual_run_results) = 3
    /\ result.individual_run_results[1].result.kind = "Error"
    /\ result.individual_run_results[2].result.kind = "Fail"
    /\ result.individual_run_results[3].result.kind = "Pass"

\* ------------------------------------------------------------------------
\* The checks of a RUN.
\* ------------------------------------------------------------------------

\* The evaluator state a RUN of the file starts its checks with, its
\* process having printed program_output.
StateOfRun(commands, program_output) ==
    append_program_stderr(
        append_program_output(
            TestRunState_new(initial_variables(ConfigConstants, TestFile_variables(commands))),
            program_output.stdout),
        program_output.stderr)

RECURSIVE ChecksFrom(_, _, _, _)
RECURSIVE ChecksAfter(_, _, _)
\* The result of evaluating every Check and CheckNext of commands[i..] in
\* file order on the state st until the first erroneous result, the other
\* commands being passed over; so_far is the result so far.
ChecksFrom(commands, i, st, so_far) ==
    IF i > Len(commands) THEN so_far
    ELSE IF commands[i].kind = "Check"
    THEN ChecksAfter(commands, i, check(st, commands[i].pattern, debug_assertions))
    ELSE IF commands[i].kind = "CheckNext"
    THEN ChecksAfter(commands, i, check_next(st, commands[i].pattern, debug_assertions))
    ELSE ChecksFrom(commands, i + 1, st, Pass)

\* ChecksFrom once command i evaluated to checked.
ChecksAfter(commands, i, checked) ==
    IF is_erroneous(checked.result) THEN checked.result
    ELSE ChecksFrom(commands, i + 1, checked.st, Pass)

\* C39: for each RUN whose process exits successfully, every Check and
\* CheckNext command of the file is evaluated against the output of that
\* RUN in file order until the first failure, whether the command is
\* before or after the line of that RUN and whatever RUN lines are in
\* between: the result of the checks of the RUN is that of the checks of
\* the whole file, from its first command on, on the output of the RUN.
C39_EveryCheckOfTheFileOnEveryRun ==
    \A k \in 1..Len(test_results) :
        (test_results[k].outcome.launched /\ test_results[k].outcome.status = 0)
            => /\ raw_results[k]
                    = ChecksFrom(test_file, 1,
                                 StateOfRun(test_file, test_results[k].program_output),
                                 EmptyTest)
               /\ test_results[k].program_output
                    = ProgramOutput(test_results[k].outcome.stdout,
                                    test_results[k].outcome.stderr)

\* The second RUN of a file whose only check is on the line before the
\* first RUN failed that check, which the first RUN had passed.
C39_Witness_CheckBeforeBothRuns ==
    /\ Len(test_file) = 3
    /\ test_file[1].kind = "Check"
    /\ test_file[2].kind = "Run"
    /\ test_file[3].kind = "Run"
    /\ Len(test_results) = 2
    /\ raw_results[1] = Pass
    /\ raw_results[2].kind = "Fail"
    /\ test_results[2].outcome.launched
    /\ test_results[2].outcome.status = 0

====
